---- MODULE Spec2Model ----
(***************************************************************************)
(* Model of the TestAngel SAP engine.                                      *)
(*                                                                         *)
(* The repository holds two artefacts that share the same State struct:   *)
(*   - the executable (src/main.rs): a REPL whose process_request          *)
(*     dispatches ResetState / ShutDown / Instructions / RunInstructions   *)
(*     over five instructions;                                             *)
(*   - the library (src/lib.rs): instruction handlers registered on an     *)
(*     Engine; each handler is a closure over (state, params, output,      *)
(*     evidence) that returns None on success or Some(Response::Error).    *)
(* The variable `program` says which artefact a behaviour is about.       *)
(*                                                                         *)
(* The SAP scripting driver is the environment: every driver call picks   *)
(* its outcome nondeterministically.                                       *)
(***************************************************************************)
EXTENDS Integers, Sequences, FiniteSets, TLC

\* Longest RunInstructions batch that is enumerated.
MaxBatch == 2

\* Number of caller threads of the library.
NThreads == 2

VARIABLES
    program,        \* "main" (REPL), "main --request" (one request), "lib"
    stdin,          \* standard input of the REPL: "open" | "closed" (end of file)
    tpc,            \* per caller thread of the library: "out" | "in" (ENGINE locked)
    state,          \* State { com_instance, session }
    pc,             \* "idle" | "running" | "done" | "empty" | "exited" | "aborted"
    request,        \* the request being served: its kind and its batch
    idx,            \* number of calls of the batch consumed by the for loop
    output,         \* accumulator `output`
    evidence,       \* accumulator `evidence`
    response,       \* the response produced for the latest request
    before,         \* history: State when the latest request started
    trace,          \* history: <<position, event>> of the latest request
    failedAt,       \* history: position of the call that failed, 0 if none
    vkey,           \* history: <<code>> last handed to send_v_key by the request
    last            \* history: summary of the request served before this one

vars == <<program, stdin, tpc, state, pc, request, idx, output, evidence,
          response, before, trace, failedAt, vkey, last>>

----------------------------------------------------------------------------
(* Values *)

None == "None"
Some == "Some"

\* State::default()
DefaultState == [com_instance |-> None, session |-> None]

StringValue(s) == [kind |-> "String", s |-> s, i |-> 0]
IntegerValue(n) == [kind |-> "Integer", s |-> "", i |-> n]

\* ParameterValue::value_string / value_i32
value_string(v) == v.s
value_i32(v) == v.i
\* ParameterValue::Boolean, held in the integer field of the record.
BooleanValue(b) == [kind |-> "Boolean", s |-> "", i |-> IF b THEN 1 ELSE 0]
value_bool(v) == v.i = 1

EmptyParams == [n \in {} |-> StringValue("")]

\* Component kinds the driver can hand back from find_by_id.
Kinds == {"GuiTextField", "GuiCTextField", "GuiMainWindow", "GuiFrameWindow",
          "GuiButton", "GuiLabel"}

NotFound == "NotFound"

\* Where a connect attempt stops: "ok" or the step of connect() that fails.
ConnectOutcomes == {"ok", "com_instance", "sap_wrapper", "scripting_engine",
                    "app_children", "app_child", "not_connection",
                    "conn_children", "conn_child", "not_session"}

\* The outcomes of the driver and file system calls one instruction call
\* can make: connect(), find_by_id, the operation on the component, and for
\* a screenshot fs::read and fs::remove_file.
DriverOutcomes == [connect : ConnectOutcomes,
                   found   : Kinds \cup {NotFound},
                   op      : BOOLEAN,
                   read    : BOOLEAN,
                   remove  : BOOLEAN]

----------------------------------------------------------------------------
(* Responses *)

NoResponse == [type |-> "None", kind |-> "", reason |-> <<>>,
               output |-> <<>>, evidence |-> <<>>]

ErrorResponse(kind, reason) ==
    [type |-> "Error", kind |-> kind, reason |-> reason,
     output |-> <<>>, evidence |-> <<>>]

StateReset == [NoResponse EXCEPT !.type = "StateReset"]

ExecutionOutput(o, e) ==
    [NoResponse EXCEPT !.type = "ExecutionOutput", !.output = o, !.evidence = e]

----------------------------------------------------------------------------
(* Instruction descriptors of src/main.rs *)

Instruction(id, params) == [id |-> id, parameters |-> params]
Parameter(name, kind) == [name |-> name, kind |-> kind]

INSTRUCTION_CONNECT_TO_OPEN_INSTANCE == Instruction("sap-connect", <<>>)

INSTRUCTION_RUN_TRANSACTION ==
    Instruction("sap-run-transaction", <<Parameter("tcode", "String")>>)

INSTRUCTION_SET_TEXT_VALUE ==
    Instruction("sap-set-text-value",
                <<Parameter("target", "String"), Parameter("value", "String")>>)

INSTRUCTION_SEND_KEY ==
    Instruction("sap-send-key", <<Parameter("key", "Integer")>>)

INSTRUCTION_PRESS_BUTTON ==
    Instruction("sap-press-button", <<Parameter("target", "String")>>)

\* Variant of Catalog: the last descriptor repeats the id of the one before.
Catalog_Duplicate ==
    <<INSTRUCTION_CONNECT_TO_OPEN_INSTANCE, INSTRUCTION_RUN_TRANSACTION,
      INSTRUCTION_SET_TEXT_VALUE, INSTRUCTION_SEND_KEY,
      [INSTRUCTION_PRESS_BUTTON EXCEPT !.id = INSTRUCTION_SEND_KEY.id]>>

\* Variant of Catalog: sap-press-button is not offered.
Catalog_Short ==
    <<INSTRUCTION_CONNECT_TO_OPEN_INSTANCE, INSTRUCTION_RUN_TRANSACTION,
      INSTRUCTION_SET_TEXT_VALUE, INSTRUCTION_SEND_KEY>>

\* The catalog of the Instructions response, in the order of the vec![].
Catalog == <<INSTRUCTION_CONNECT_TO_OPEN_INSTANCE, INSTRUCTION_RUN_TRANSACTION,
             INSTRUCTION_SET_TEXT_VALUE, INSTRUCTION_SEND_KEY,
             INSTRUCTION_PRESS_BUTTON>>

InstructionsResponse ==
    [NoResponse EXCEPT !.type = "Instructions",
                       !.output = [k \in 1..Len(Catalog) |-> Catalog[k].id]]

\* Instruction::validate: every declared parameter is present and has the
\* declared kind; the first offending declaration decides the error.
Validate(instr, call) ==
    LET bad == {k \in 1..Len(instr.parameters) :
                   \/ instr.parameters[k].name \notin DOMAIN call.parameters
                   \/ call.parameters[instr.parameters[k].name].kind
                          # instr.parameters[k].kind}
    IN  IF bad = {} THEN [ok |-> TRUE, kind |-> "", reason |-> <<>>]
        ELSE LET k == CHOOSE m \in bad : \A n \in bad : m <= n
                 p == instr.parameters[k]
             IN  IF p.name \notin DOMAIN call.parameters
                 THEN [ok |-> FALSE, kind |-> "MissingParameter",
                       reason |-> <<"Missing parameter ", p.name>>]
                 ELSE [ok |-> FALSE, kind |-> "InvalidParameterType",
                       reason |-> <<"Invalid kind of parameter ", p.name>>]

----------------------------------------------------------------------------
(* connect() of src/main.rs *)

ConnectError(outcome) ==
    CASE outcome = "com_instance"     -> <<"Couldn't get COM instance">>
      [] outcome = "sap_wrapper"      -> <<"Couldn't get SAP wrapper: ", "e">>
      [] outcome = "scripting_engine" -> <<"Couldn't get GuiApplication instance: ", "e">>
      [] outcome = "app_children"     -> <<"Couldn't get GuiApplication children: ", "e">>
      [] outcome = "app_child"        -> <<"Couldn't get child of GuiApplication: ", "e">>
      [] outcome = "not_connection"   -> <<"Expected GuiConnection, but got something else!">>
      [] outcome = "conn_children"    -> <<"Couldn't get GuiConnection children: ", "e">>
      [] outcome = "conn_child"       -> <<"Couldn't get child of GuiConnection: ", "e">>
      [] outcome = "not_session"      -> <<"Expected GuiSession, but got something else!">>

\* Variant of connect: the COM instance is stored as soon as it is obtained.
connect_StoreEarly(st, outcome) ==
    IF outcome = "ok"
    THEN [ok |-> TRUE, state |-> [st EXCEPT !.com_instance = Some],
          session |-> Some, reason |-> <<>>]
    ELSE [ok |-> FALSE,
          state |-> IF outcome = "com_instance" THEN st
                    ELSE [st EXCEPT !.com_instance = Some],
          session |-> None, reason |-> ConnectError(outcome)]

\* Every step that can fail returns before `state` is written; on success
\* the COM instance is stored and the session is handed back to the caller.
connect(st, outcome) ==
    IF outcome = "ok"
    THEN [ok |-> TRUE, state |-> [st EXCEPT !.com_instance = Some],
          session |-> Some, reason |-> <<>>]
    ELSE [ok |-> FALSE, state |-> st, session |-> None,
          reason |-> ConnectError(outcome)]

----------------------------------------------------------------------------
(* The result of serving one call of a batch *)

\* The call completed: the state it leaves, the evidence it contributes,
\* and the validation / driver events it performed, in order.
Done(st, ev, events) ==
    [state |-> st, err |-> NoResponse, ev |-> ev, out |-> EmptyParams,
     events |-> events, panic |-> FALSE]

\* The call completed and inserted `out` into its output map.
Output(st, out, events) == [Done(st, <<>>, events) EXCEPT !.out = out]

\* Variant of Fail: an error return that also discards the State.
Fail_Rollback(st, kind, reason, events) ==
    [state |-> DefaultState, err |-> ErrorResponse(kind, reason), ev |-> <<>>,
     out |-> EmptyParams, events |-> events, panic |-> FALSE]

\* The call returned Response::Error { kind, reason }.
Fail(st, kind, reason, events) ==
    [state |-> st, err |-> ErrorResponse(kind, reason), ev |-> <<>>,
     out |-> EmptyParams, events |-> events, panic |-> FALSE]

\* Indexing the parameter map with a missing key panics.
Panic(st, events) ==
    [state |-> st, err |-> NoResponse, ev |-> <<>>, out |-> EmptyParams,
     events |-> events, panic |-> TRUE]

----------------------------------------------------------------------------
(* The branches of the RunInstructions loop of process_request (main.rs) *)

\* Variant of ConnectToOpenInstance: connects whether or not a session is held.
ConnectToOpenInstance_Always(st, i, d) ==
    LET v == Validate(INSTRUCTION_CONNECT_TO_OPEN_INSTANCE, i) IN
    IF ~v.ok THEN Fail(st, v.kind, v.reason, <<"validate">>)
    ELSE LET c == connect(st, d.connect) IN
         IF ~c.ok
         THEN Fail(c.state, "EngineProcessingError", c.reason,
                   <<"validate", "connect">>)
         ELSE Done([c.state EXCEPT !.session = c.session], <<>>,
                   <<"validate", "connect">>)

ConnectToOpenInstance(st, i, d) ==
    LET v == Validate(INSTRUCTION_CONNECT_TO_OPEN_INSTANCE, i) IN
    IF ~v.ok THEN Fail(st, v.kind, v.reason, <<"validate">>)
    ELSE IF st.session = None
    THEN LET c == connect(st, d.connect) IN
         IF ~c.ok
         THEN Fail(c.state, "EngineProcessingError", c.reason,
                   <<"validate", "connect">>)
         ELSE Done([c.state EXCEPT !.session = c.session], <<>>,
                   <<"validate", "connect">>)
    ELSE Done(st, <<>>, <<"validate">>)

\* Variant of RunTransaction: a missing session is opened on the way.
RunTransaction_Lazy(st, i, d) ==
    LET v == Validate(INSTRUCTION_RUN_TRANSACTION, i) IN
    IF ~v.ok THEN Fail(st, v.kind, v.reason, <<"validate">>)
    ELSE LET tcode == value_string(i.parameters["tcode"])
             ev == <<[label |-> "SAP Transaction",
                      content |-> <<"Ran transaction '", tcode, "'.">>]>>
         IN  IF ~d.op
             THEN Fail(st, "EngineProcessingError",
                       <<"Couldn't execute transaction. ", "e">>,
                       <<"validate", "start_transaction">>)
             ELSE Done([com_instance |-> Some, session |-> Some], ev,
                       <<"validate", "start_transaction">>)

RunTransaction(st, i, d) ==
    LET v == Validate(INSTRUCTION_RUN_TRANSACTION, i) IN
    IF ~v.ok THEN Fail(st, v.kind, v.reason, <<"validate">>)
    ELSE LET tcode == value_string(i.parameters["tcode"])
             ev == <<[label |-> "SAP Transaction",
                      content |-> <<"Ran transaction '", tcode, "'.">>]>>
         IN  IF st.session # None
             THEN IF ~d.op
                  THEN Fail(st, "EngineProcessingError",
                            <<"Couldn't execute transaction. ", "e">>,
                            <<"validate", "start_transaction">>)
                  ELSE Done(st, ev, <<"validate", "start_transaction">>)
             ELSE Done(st, ev, <<"validate">>)

\* Variant of SetTextValue: the target is resolved before the call is validated.
SetTextValue_ResolveFirst(st, i, d) ==
    LET v == Validate(INSTRUCTION_SET_TEXT_VALUE, i) IN
    IF st.session # None /\ "target" \in DOMAIN i.parameters
    THEN IF ~v.ok THEN Fail(st, v.kind, v.reason, <<"find_by_id", d.found, "validate">>)
         ELSE IF d.found \in {"GuiTextField", "GuiCTextField"} /\ d.op
         THEN Done(st, <<>>, <<"find_by_id", d.found, "validate", "set_text">>)
         ELSE Fail(st, "EngineProcessingError", <<"Can't set text: ", "e">>,
                   <<"find_by_id", d.found, "validate">>)
    ELSE IF ~v.ok THEN Fail(st, v.kind, v.reason, <<"validate">>)
    ELSE Done(st, <<>>, <<"validate">>)

SetTextValue(st, i, d) ==
    LET v == Validate(INSTRUCTION_SET_TEXT_VALUE, i) IN
    IF ~v.ok THEN Fail(st, v.kind, v.reason, <<"validate">>)
    ELSE LET target == value_string(i.parameters["target"]) IN
         IF st.session # None
         THEN IF d.found = NotFound
              THEN Fail(st, "EngineProcessingError",
                        <<"Couldn't find ", target, ".">>,
                        <<"validate", "find_by_id", d.found>>)
              ELSE IF d.found \in {"GuiTextField", "GuiCTextField"}
              THEN IF ~d.op
                   THEN Fail(st, "EngineProcessingError",
                             <<"Can't set text: ", "e">>,
                             <<"validate", "find_by_id", d.found, "set_text">>)
                   ELSE Done(st, <<>>, <<"validate", "find_by_id", d.found, "set_text">>)
              ELSE Fail(st, "EngineProcessingError",
                        <<"No valid target to set text.">>,
                        <<"validate", "find_by_id", d.found>>)
         ELSE Done(st, <<>>, <<"validate">>)

\* let key = i.parameters["key"].value_i32(); ... wnd.send_v_key(key)
send_v_key_arg(i) == value_i32(i.parameters["key"])

SendKey(st, i, d) ==
    LET v == Validate(INSTRUCTION_SEND_KEY, i) IN
    IF ~v.ok THEN Fail(st, v.kind, v.reason, <<"validate">>)
    ELSE IF st.session # None
         THEN IF d.found = NotFound
              THEN Fail(st, "EngineProcessingError",
                        <<"SAP window couldn't be requested.">>,
                        <<"validate", "find_by_id", d.found>>)
              ELSE IF d.found = "GuiMainWindow"
              THEN IF ~d.op
                   THEN Fail(st, "EngineProcessingError",
                             <<"Couldn't send VKey: ", "e">>,
                             <<"validate", "find_by_id", d.found, "send_v_key">>)
                   ELSE Done(st, <<>>, <<"validate", "find_by_id", d.found, "send_v_key">>)
              ELSE Fail(st, "EngineProcessingError", <<"SAP window not open">>,
                        <<"validate", "find_by_id", d.found>>)
         ELSE Done(st, <<>>, <<"validate">>)

PressButton(st, i, d) ==
    LET v == Validate(INSTRUCTION_PRESS_BUTTON, i) IN
    IF ~v.ok THEN Fail(st, v.kind, v.reason, <<"validate">>)
    ELSE IF "id" \notin DOMAIN i.parameters
    THEN Panic(st, <<"validate">>)
    ELSE IF st.session # None
         THEN IF d.found = NotFound
              THEN Fail(st, "EngineProcessingError",
                        <<"Failed to find component">>,
                        <<"validate", "find_by_id", d.found>>)
              ELSE IF d.found = "GuiButton"
              THEN IF ~d.op
                   THEN Fail(st, "EngineProcessingError",
                             <<"Couldn't press button: ", "e">>,
                             <<"validate", "find_by_id", d.found, "press">>)
                   ELSE Done(st, <<>>, <<"validate", "find_by_id", d.found, "press">>)
              ELSE Fail(st, "EngineProcessingError",
                        <<"Tried to press a non-button">>,
                        <<"validate", "find_by_id", d.found>>)
         ELSE Done(st, <<>>, <<"validate">>)

\* Variant of InvalidInstruction: a call with an unknown id is skipped.
InvalidInstruction_Skip(st, i, d) == Done(st, <<>>, <<>>)

InvalidInstruction(st, i, d) ==
    Fail(st, "InvalidInstruction",
         <<"The requested instruction ", i.instruction,
           " could not be handled by this engine.">>, <<>>)

----------------------------------------------------------------------------
(* connect(), get_session() and the instruction handlers of src/lib.rs *)

\* Variant of lib_connect: the COM instance is stored as soon as it is obtained.
lib_connect_Partial(st, outcome) ==
    IF outcome = "ok"
    THEN [ok |-> TRUE, state |-> [com_instance |-> Some, session |-> Some],
          reason |-> <<>>]
    ELSE [ok |-> FALSE,
          state |-> IF outcome = "com_instance" THEN st
                    ELSE [st EXCEPT !.com_instance = Some],
          reason |-> ConnectError(outcome)]

\* As in main.rs every failing step returns before `state` is written; here
\* connect() stores both the COM instance and the session itself.
lib_connect(st, outcome) ==
    IF outcome = "ok"
    THEN [ok |-> TRUE, state |-> [com_instance |-> Some, session |-> Some],
          reason |-> <<>>]
    ELSE [ok |-> FALSE, state |-> st, reason |-> ConnectError(outcome)]

get_session(st) ==
    IF st.session # None
    THEN [ok |-> TRUE, reason |-> <<>>]
    ELSE [ok |-> FALSE, reason |-> <<"GuiSession not initialised">>]

\* Variant of ENGINE_sap_connect: a connect failure is reported as InvalidInstruction.
ENGINE_sap_connect_WrongKind(st, i, d) ==
    IF st.com_instance = None
    THEN LET c == lib_connect(st, d.connect) IN
         IF ~c.ok
         THEN Fail(c.state, "InvalidInstruction", c.reason, <<"connect">>)
         ELSE Done(c.state, <<>>, <<"connect">>)
    ELSE Done(st, <<>>, <<>>)

ENGINE_sap_connect(st, i, d) ==
    IF st.com_instance = None
    THEN LET c == lib_connect(st, d.connect) IN
         IF ~c.ok
         THEN Fail(c.state, "EngineProcessingError", c.reason, <<"connect">>)
         ELSE Done(c.state, <<>>, <<"connect">>)
    ELSE Done(st, <<>>, <<>>)

ENGINE_sap_run_transaction(st, i, d) ==
    LET s == get_session(st) IN
    IF s.ok
    THEN IF ~d.op
         THEN Fail(st, "EngineProcessingError",
                   <<"Couldn't execute transaction. ", "e">>,
                   <<"start_transaction">>)
         ELSE Done(st, <<>>, <<"start_transaction">>)
    ELSE Fail(st, "EngineProcessingError", s.reason, <<>>)

\* Variant of ENGINE_sap_screenshot: a file that cannot be deleted fails the call.
ENGINE_sap_screenshot_StrictCleanup(st, i, d) ==
    LET s == get_session(st)
        label == value_string(i.parameters["label"])
        target == value_string(i.parameters["target"])
        find == <<"find_by_id", d.found>>
    IN  IF ~s.ok THEN Fail(st, "EngineProcessingError", s.reason, <<>>)
        ELSE IF d.found = NotFound
        THEN Fail(st, "EngineProcessingError",
                  <<"Couldn't find ", target, ".">>, find)
        ELSE IF d.found \notin {"GuiMainWindow", "GuiFrameWindow"}
        THEN Fail(st, "EngineProcessingError",
                  <<"No valid target to screenshot.">>, find)
        ELSE IF ~d.op
        THEN Fail(st, "EngineProcessingError", <<"Can't screenshot: ", "e">>,
                  find \o <<"hard_copy">>)
        ELSE IF ~d.read
        THEN Fail(st, "EngineProcessingError",
                  <<"Failed to read screenshot: ", "e">>,
                  find \o <<"hard_copy", "read">>)
        ELSE IF ~d.remove
        THEN Fail(st, "EngineProcessingError",
                  <<"Failed to delete screenshot: ", "e">>,
                  find \o <<"hard_copy", "read", "evidence.push",
                            "remove_file", "remove_file failed">>)
        ELSE Done(st,
                  <<[label |-> label,
                     content |-> <<"ImageAsPngBase64", "base64(evidence.png)">>]>>,
                  find \o <<"hard_copy", "read", "evidence.push",
                            "remove_file">>)

\* Variant of ENGINE_sap_screenshot: the evidence item is pushed as soon as
\* the hard copy is taken, before the file is read.
ENGINE_sap_screenshot_PushFirst(st, i, d) ==
    LET s == get_session(st)
        label == value_string(i.parameters["label"])
        target == value_string(i.parameters["target"])
        find == <<"find_by_id", d.found>>
    IN  IF ~s.ok THEN Fail(st, "EngineProcessingError", s.reason, <<>>)
        ELSE IF d.found = NotFound
        THEN Fail(st, "EngineProcessingError",
                  <<"Couldn't find ", target, ".">>, find)
        ELSE IF d.found \notin {"GuiMainWindow", "GuiFrameWindow"}
        THEN Fail(st, "EngineProcessingError",
                  <<"No valid target to screenshot.">>, find)
        ELSE IF ~d.op
        THEN Fail(st, "EngineProcessingError", <<"Can't screenshot: ", "e">>,
                  find \o <<"hard_copy">>)
        ELSE IF ~d.read
        THEN Fail(st, "EngineProcessingError",
                  <<"Failed to read screenshot: ", "e">>,
                  find \o <<"hard_copy", "evidence.push", "read">>)
        ELSE Done(st,
                  <<[label |-> label,
                     content |-> <<"ImageAsPngBase64", "base64(evidence.png)">>]>>,
                  find \o <<"hard_copy", "evidence.push", "read",
                            "remove_file">>
                       \o (IF d.remove THEN <<>> ELSE <<"remove_file failed">>))

\* find_by_id, hard_copy on a main or frame window, fs::read of the file,
\* the evidence item, and a removal of the file whose result is dropped.
ENGINE_sap_screenshot(st, i, d) ==
    LET s == get_session(st)
        label == value_string(i.parameters["label"])
        target == value_string(i.parameters["target"])
        find == <<"find_by_id", d.found>>
    IN  IF ~s.ok THEN Fail(st, "EngineProcessingError", s.reason, <<>>)
        ELSE IF d.found = NotFound
        THEN Fail(st, "EngineProcessingError",
                  <<"Couldn't find ", target, ".">>, find)
        ELSE IF d.found \notin {"GuiMainWindow", "GuiFrameWindow"}
        THEN Fail(st, "EngineProcessingError",
                  <<"No valid target to screenshot.">>, find)
        ELSE IF ~d.op
        THEN Fail(st, "EngineProcessingError", <<"Can't screenshot: ", "e">>,
                  find \o <<"hard_copy">>)
        ELSE IF ~d.read
        THEN Fail(st, "EngineProcessingError",
                  <<"Failed to read screenshot: ", "e">>,
                  find \o <<"hard_copy", "read">>)
        ELSE Done(st,
                  <<[label |-> label,
                     content |-> <<"ImageAsPngBase64", "base64(evidence.png)">>]>>,
                  find \o <<"hard_copy", "read", "evidence.push",
                            "remove_file">>
                       \o (IF d.remove THEN <<>> ELSE <<"remove_file failed">>))

ENGINE_sap_set_text_value(st, i, d) ==
    LET s == get_session(st)
        target == value_string(i.parameters["target"])
    IN  IF s.ok
        THEN IF d.found = NotFound
             THEN Fail(st, "EngineProcessingError",
                       <<"Couldn't find ", target, ".">>, <<"find_by_id", d.found>>)
             ELSE IF d.found \in {"GuiTextField", "GuiCTextField"}
             THEN IF ~d.op
                  THEN Fail(st, "EngineProcessingError",
                            <<"Can't set text: ", "e">>,
                            <<"find_by_id", d.found, "set_text">>)
                  ELSE Done(st, <<>>, <<"find_by_id", d.found, "set_text">>)
             ELSE Fail(st, "EngineProcessingError",
                       <<"No valid target to set text.">>, <<"find_by_id", d.found>>)
        ELSE Fail(st, "EngineProcessingError", s.reason, <<>>)

\* `as i16`: the low 16 bits, read as a signed number.
as_i16(n) == ((n + 32768) % 65536) - 32768

\* Variant of ENGINE_send_v_key_arg: the key code is handed over unconverted.
ENGINE_send_v_key_arg_Wide(i) == value_i32(i.parameters["key"])

\* let key = params["key"].value_i32(); ... wnd.send_v_key(key as i16)
ENGINE_send_v_key_arg(i) == as_i16(value_i32(i.parameters["key"]))

ENGINE_sap_send_key(st, i, d) ==
    LET s == get_session(st) IN
    IF s.ok
    THEN IF d.found = NotFound
         THEN Fail(st, "EngineProcessingError",
                   <<"SAP window couldn't be requested.">>, <<"find_by_id", d.found>>)
         ELSE IF d.found = "GuiMainWindow"
         THEN IF ~d.op
              THEN Fail(st, "EngineProcessingError",
                        <<"Couldn't send VKey: ", "e">>,
                        <<"find_by_id", d.found, "send_v_key">>)
              ELSE Done(st, <<>>, <<"find_by_id", d.found, "send_v_key">>)
         ELSE Fail(st, "EngineProcessingError", <<"SAP window not open">>,
                   <<"find_by_id", d.found>>)
    ELSE Fail(st, "EngineProcessingError", s.reason, <<>>)

ENGINE_sap_press_button(st, i, d) ==
    LET s == get_session(st) IN
    IF s.ok
    THEN IF d.found = NotFound
         THEN Fail(st, "EngineProcessingError",
                   <<"Failed to find component">>, <<"find_by_id", d.found>>)
         ELSE IF d.found = "GuiButton"
         THEN IF ~d.op
              THEN Fail(st, "EngineProcessingError",
                        <<"Couldn't press button: ", "e">>,
                        <<"find_by_id", d.found, "press">>)
              ELSE Done(st, <<>>, <<"find_by_id", d.found, "press">>)
         ELSE Fail(st, "EngineProcessingError",
                   <<"Tried to press a non-button">>, <<"find_by_id", d.found>>)
    ELSE Fail(st, "EngineProcessingError", s.reason, <<>>)

----------------------------------------------------------------------------
(* Inputs *)

Call(id, params) == [instruction |-> id, parameters |-> params]

P1(n, v) == [x \in {n} |-> v]
P2(n1, v1, n2, v2) == [x \in {n1, n2} |-> IF x = n1 THEN v1 ELSE v2]

Target == "wnd[0]/usr/ctrl"

\* The calls a caller can put in a batch: for every instruction a call that
\* matches its descriptor, calls that miss a parameter or carry one of the
\* wrong kind, and a call whose id is in no catalog.
Calls ==
    { Call("sap-connect", EmptyParams),
      Call("sap-run-transaction", P1("tcode", StringValue("VA01"))),
      Call("sap-run-transaction", EmptyParams),
      Call("sap-set-text-value",
           P2("target", StringValue(Target), "value", StringValue("x"))),
      Call("sap-set-text-value", P1("target", StringValue(Target))),
      Call("sap-send-key", P1("key", IntegerValue(65544))),
      Call("sap-send-key", P1("key", StringValue("8"))),
      Call("sap-press-button", P1("target", StringValue(Target))),
      Call("sap-press-button",
           P2("target", StringValue(Target), "id", StringValue(Target))),
      Call("sap-unknown", EmptyParams) }

RECURSIVE SeqsUpTo(_, _)
SeqsUpTo(S, n) ==
    IF n = 0 THEN {<<>>}
    ELSE LET shorter == SeqsUpTo(S, n - 1)
         IN  shorter \cup {Append(q, c) : q \in {r \in shorter : Len(r) = n - 1},
                                          c \in S}

Batches == SeqsUpTo(Calls, MaxBatch)

\* The ids of the instructions registered on ENGINE, in registration order.
ENGINE_ids ==
    <<"sap-connect", "sap-run-transaction", "sap-screenshot",
      "sap-does-element-exist", "sap-component-type", "sap-visualise-element",
      "sap-set-text-value", "sap-get-text-value", "sap-send-key",
      "sap-press-button", "sap-set-checkbox", "sap-set-combobox-key",
      "sap-grid-get-row-count", "sap-grid-click-cell",
      "sap-grid-get-cell-value", "sap-get-statusbar-state", "sap-tab-select",
      "sap-table-get-row-count", "sap-table-row-select",
      "sap-table-cell-get-id">>

\* The calls the Engine hands to the handlers of lib.rs: the handlers index
\* `params` by the names their descriptors declare.
LibCalls ==
    { Call("sap-connect", EmptyParams),
      Call("sap-run-transaction", P1("tcode", StringValue("VA01"))),
      Call("sap-screenshot",
           P2("label", StringValue("shot"), "target", StringValue(Target))),
      Call("sap-set-text-value",
           P2("target", StringValue(Target), "value", StringValue("x"))),
      Call("sap-send-key", P1("key", IntegerValue(65544))),
      Call("sap-press-button", P1("target", StringValue(Target))) }

----------------------------------------------------------------------------
(* Component kinds, and the casts of src/macros.rs *)

\* The variants of SAPComponent that lib.rs names.
SAPComponent ==
    {"GuiApplication", "GuiBarChart", "GuiBox", "GuiButton",
     "GuiCTextField", "GuiCalendar", "GuiChart", "GuiCheckBox",
     "GuiColorSelector", "GuiComboBox", "GuiComboBoxControl",
     "GuiComponent", "GuiConnection", "GuiContainer", "GuiContainerShell",
     "GuiCustomControl", "GuiDialogShell", "GuiEAIViewer2D",
     "GuiEAIViewer3D", "GuiFrameWindow", "GuiGOSShell", "GuiGraphAdapt",
     "GuiGridView", "GuiHTMLViewer", "GuiInputFieldControl", "GuiLabel",
     "GuiMainWindow", "GuiMap", "GuiMenu", "GuiMenubar", "GuiModalWindow",
     "GuiNetChart", "GuiOfficeIntegration", "GuiOkCodeField",
     "GuiPasswordField", "GuiPicture", "GuiRadioButton", "GuiSapChart",
     "GuiScrollContainer", "GuiSession", "GuiShell", "GuiSimpleContainer",
     "GuiSplit", "GuiSplitterContainer", "GuiStage", "GuiStatusPane",
     "GuiStatusbar", "GuiTab", "GuiTabStrip", "GuiTableControl",
     "GuiTextField", "GuiTextedit", "GuiTitlebar", "GuiToolbar", "GuiTree",
     "GuiUserArea", "GuiVComponent", "GuiVContainer", "GuiVHViewSwitch"}

\* downcast::<target>(), or else the first downcast::<via>() that succeeds,
\* upcast to the target: Some(target) for the target kind and for every
\* listed intermediate kind, None for any other kind.
cast_intermediate(kind, target, via) ==
    IF kind = target THEN Some
    ELSE IF \E n \in 1..Len(via) : via[n] = kind THEN Some
    ELSE None

\* The intermediate kinds cast_as_vcomponent lists, in order.
cast_as_vcomponent_via ==
    <<"GuiBarChart", "GuiBox", "GuiButton", "GuiCTextField", "GuiCalendar",
      "GuiChart", "GuiCheckBox", "GuiColorSelector", "GuiComboBox",
      "GuiComboBoxControl", "GuiContainerShell", "GuiCustomControl",
      "GuiDialogShell", "GuiEAIViewer2D", "GuiEAIViewer3D",
      "GuiFrameWindow", "GuiGOSShell", "GuiGraphAdapt", "GuiGridView",
      "GuiHTMLViewer", "GuiInputFieldControl", "GuiLabel", "GuiMainWindow",
      "GuiMap", "GuiMenu", "GuiMenubar", "GuiModalWindow", "GuiNetChart",
      "GuiOfficeIntegration", "GuiOkCodeField", "GuiPasswordField",
      "GuiPicture", "GuiRadioButton", "GuiSapChart", "GuiScrollContainer",
      "GuiShell", "GuiSimpleContainer", "GuiSplit", "GuiSplitterContainer",
      "GuiStage", "GuiStatusPane", "GuiStatusbar", "GuiTab", "GuiTabStrip",
      "GuiTableControl", "GuiTextField", "GuiTextedit", "GuiTitlebar",
      "GuiToolbar", "GuiTree", "GuiUserArea", "GuiVContainer",
      "GuiVHViewSwitch">>

cast_as_vcomponent(kind) ==
    cast_intermediate(kind, "GuiVComponent", cast_as_vcomponent_via)

\* The arms of the match in sap-component-type that call _type().
ENGINE_sap_component_type_arms ==
    {"GuiBarChart", "GuiBox", "GuiButton", "GuiCalendar", "GuiChart",
     "GuiCheckBox", "GuiColorSelector", "GuiComboBox",
     "GuiComboBoxControl", "GuiContainerShell", "GuiCTextField",
     "GuiCustomControl", "GuiDialogShell", "GuiEAIViewer2D",
     "GuiEAIViewer3D", "GuiFrameWindow", "GuiGOSShell", "GuiGraphAdapt",
     "GuiGridView", "GuiHTMLViewer", "GuiInputFieldControl", "GuiLabel",
     "GuiMainWindow", "GuiMap", "GuiMenu", "GuiMenubar", "GuiModalWindow",
     "GuiNetChart", "GuiOfficeIntegration", "GuiOkCodeField",
     "GuiPasswordField", "GuiPicture", "GuiRadioButton", "GuiSapChart",
     "GuiScrollContainer", "GuiShell", "GuiSimpleContainer", "GuiSplit",
     "GuiSplitterContainer", "GuiStage", "GuiStatusbar", "GuiStatusPane",
     "GuiTab", "GuiTableControl", "GuiTabStrip", "GuiTextedit",
     "GuiTextField", "GuiTitlebar", "GuiToolbar", "GuiTree", "GuiUserArea",
     "GuiVComponent", "GuiVContainer", "GuiVHViewSwitch"}

\* Variant of ENGINE_sap_visualise_element_arms: labels cannot be visualised.
ENGINE_sap_visualise_element_arms_NoLabel ==
    ENGINE_sap_component_type_arms \ {"GuiLabel"}

\* The arms of the match in sap-visualise-element that call visualize(true).
ENGINE_sap_visualise_element_arms ==
    {"GuiBarChart", "GuiBox", "GuiButton", "GuiCalendar", "GuiChart",
     "GuiCheckBox", "GuiColorSelector", "GuiComboBox",
     "GuiComboBoxControl", "GuiContainerShell", "GuiCTextField",
     "GuiCustomControl", "GuiDialogShell", "GuiEAIViewer2D",
     "GuiEAIViewer3D", "GuiFrameWindow", "GuiGOSShell", "GuiGraphAdapt",
     "GuiGridView", "GuiHTMLViewer", "GuiInputFieldControl", "GuiLabel",
     "GuiMainWindow", "GuiMap", "GuiMenu", "GuiMenubar", "GuiModalWindow",
     "GuiNetChart", "GuiOfficeIntegration", "GuiOkCodeField",
     "GuiPasswordField", "GuiPicture", "GuiRadioButton", "GuiSapChart",
     "GuiScrollContainer", "GuiShell", "GuiSimpleContainer", "GuiSplit",
     "GuiSplitterContainer", "GuiStage", "GuiStatusbar", "GuiStatusPane",
     "GuiTab", "GuiTableControl", "GuiTabStrip", "GuiTextedit",
     "GuiTextField", "GuiTitlebar", "GuiToolbar", "GuiTree", "GuiUserArea",
     "GuiVComponent", "GuiVContainer", "GuiVHViewSwitch"}

\* The arms of the inner match in sap-table-cell-get-id that call id().
ENGINE_sap_table_cell_get_id_arms ==
    {"GuiApplication", "GuiBarChart", "GuiBox", "GuiButton", "GuiCalendar",
     "GuiChart", "GuiCheckBox", "GuiColorSelector", "GuiComboBox",
     "GuiComboBoxControl", "GuiComponent", "GuiContainer",
     "GuiContainerShell", "GuiCTextField", "GuiCustomControl",
     "GuiDialogShell", "GuiEAIViewer2D", "GuiEAIViewer3D",
     "GuiFrameWindow", "GuiGOSShell", "GuiGraphAdapt", "GuiGridView",
     "GuiHTMLViewer", "GuiInputFieldControl", "GuiLabel", "GuiMainWindow",
     "GuiMap", "GuiMenu", "GuiMenubar", "GuiModalWindow", "GuiNetChart",
     "GuiOfficeIntegration", "GuiOkCodeField", "GuiPasswordField",
     "GuiPicture", "GuiRadioButton", "GuiSapChart", "GuiScrollContainer",
     "GuiShell", "GuiSimpleContainer", "GuiSplit", "GuiSplitterContainer",
     "GuiStage", "GuiStatusbar", "GuiStatusPane", "GuiTab",
     "GuiTableControl", "GuiTabStrip", "GuiTextedit", "GuiTextField",
     "GuiTitlebar", "GuiToolbar", "GuiTree", "GuiUserArea",
     "GuiVComponent", "GuiVContainer", "GuiVHViewSwitch"}

----------------------------------------------------------------------------
(* The remaining instruction handlers of src/lib.rs *)

\* Variant of ENGINE_sap_does_element_exist: a target that cannot be
\* resolved is an error.
ENGINE_sap_does_element_exist_Strict(st, i, d) ==
    LET s == get_session(st)
        target == value_string(i.parameters["target"])
    IN  IF ~s.ok THEN Fail(st, "EngineProcessingError", s.reason, <<>>)
        ELSE IF d.found = NotFound
        THEN Fail(st, "EngineProcessingError",
                  <<"Couldn't find ", target, ".">>, <<"find_by_id", d.found>>)
        ELSE Output(st, P1("exists", BooleanValue(TRUE)),
                    <<"find_by_id", d.found, "output.insert">>)

\* exists = find_by_id(target).is_ok(); the only error is a missing session.
ENGINE_sap_does_element_exist(st, i, d) ==
    LET s == get_session(st) IN
    IF s.ok
    THEN Output(st, P1("exists", BooleanValue(d.found # NotFound)),
                <<"find_by_id", d.found, "output.insert">>)
    ELSE Fail(st, "EngineProcessingError", s.reason, <<>>)

ENGINE_sap_component_type(st, i, d) ==
    LET s == get_session(st)
        target == value_string(i.parameters["target"])
        find == <<"find_by_id", d.found>>
    IN  IF ~s.ok THEN Fail(st, "EngineProcessingError", s.reason, <<>>)
        ELSE IF d.found = NotFound
        THEN Fail(st, "EngineProcessingError",
                  <<"Couldn't find ", target, ".">>, find)
        ELSE IF d.found \notin ENGINE_sap_component_type_arms
        THEN Fail(st, "EngineProcessingError",
                  <<"No valid target to get type.">>, find)
        ELSE IF ~d.op
        THEN Fail(st, "EngineProcessingError",
                  <<"Failed to get type: ", "e">>, find \o <<"_type">>)
        ELSE Output(st, P1("type", StringValue(d.found)),
                    find \o <<"_type", "output.insert">>)

ENGINE_sap_visualise_element(st, i, d) ==
    LET s == get_session(st)
        target == value_string(i.parameters["target"])
        find == <<"find_by_id", d.found>>
    IN  IF ~s.ok THEN Fail(st, "EngineProcessingError", s.reason, <<>>)
        ELSE IF d.found = NotFound
        THEN Fail(st, "EngineProcessingError",
                  <<"Couldn't find ", target, ".">>, find)
        ELSE IF d.found \notin ENGINE_sap_visualise_element_arms
        THEN Fail(st, "EngineProcessingError",
                  <<"No valid target to visualise.">>, find)
        ELSE IF ~d.op
        THEN Fail(st, "EngineProcessingError",
                  <<"Failed to visualize: ", "e">>, find \o <<"visualize">>)
        ELSE Done(st, <<>>, find \o <<"visualize">>)

\* Variant of ENGINE_sap_get_text_value: a label is read when the target
\* address names one.
ENGINE_sap_get_text_value_ByAddress(st, i, d) ==
    LET s == get_session(st)
        target == value_string(i.parameters["target"])
        find == <<"find_by_id", d.found>>
    IN  IF ~s.ok THEN Fail(st, "EngineProcessingError", s.reason, <<>>)
        ELSE IF d.found = NotFound
        THEN Fail(st, "EngineProcessingError",
                  <<"Couldn't find ", target, ".">>, find)
        ELSE IF d.found \notin {"GuiTextField", "GuiCTextField",
                                "GuiFrameWindow", "GuiMainWindow"}
                /\ ~(d.found = "GuiLabel" /\ target = "wnd[0]/usr/lbl")
        THEN Fail(st, "EngineProcessingError",
                  <<"No valid target to get text.">>, find)
        ELSE IF ~d.op
        THEN Fail(st, "EngineProcessingError",
                  <<"Can't get text: ", "e">>, find \o <<"text">>)
        ELSE Output(st, P1("value", StringValue("text")),
                    find \o <<"text", "output.insert">>)

ENGINE_sap_get_text_value(st, i, d) ==
    LET s == get_session(st)
        target == value_string(i.parameters["target"])
        find == <<"find_by_id", d.found>>
    IN  IF ~s.ok THEN Fail(st, "EngineProcessingError", s.reason, <<>>)
        ELSE IF d.found = NotFound
        THEN Fail(st, "EngineProcessingError",
                  <<"Couldn't find ", target, ".">>, find)
        ELSE IF d.found \notin {"GuiTextField", "GuiCTextField",
                                "GuiFrameWindow", "GuiMainWindow"}
        THEN Fail(st, "EngineProcessingError",
                  <<"No valid target to get text.">>, find)
        ELSE IF ~d.op
        THEN Fail(st, "EngineProcessingError",
                  <<"Can't get text: ", "e">>, find \o <<"text">>)
        ELSE Output(st, P1("value", StringValue("text")),
                    find \o <<"text", "output.insert">>)

ENGINE_sap_set_checkbox(st, i, d) ==
    LET s == get_session(st)
        cb_state == value_bool(i.parameters["state"])
        find == <<"find_by_id", d.found>>
    IN  IF ~s.ok THEN Fail(st, "EngineProcessingError", s.reason, <<>>)
        ELSE IF d.found = NotFound
        THEN Fail(st, "EngineProcessingError",
                  <<"Failed to find component">>, find)
        ELSE IF d.found # "GuiCheckBox"
        THEN Fail(st, "EngineProcessingError",
                  <<"Tried to check a non-checkbox">>, find)
        ELSE IF ~d.op
        THEN Fail(st, "EngineProcessingError",
                  <<"Couldn't set checkbox: ", "e">>,
                  find \o <<"set_selected">>)
        ELSE Done(st, <<>>, find \o <<"set_selected">>)

ENGINE_sap_set_combobox_key(st, i, d) ==
    LET s == get_session(st)
        target == value_string(i.parameters["target"])
        key == value_string(i.parameters["key"])
        find == <<"find_by_id", d.found>>
    IN  IF ~s.ok THEN Fail(st, "EngineProcessingError", s.reason, <<>>)
        ELSE IF d.found = NotFound
        THEN Fail(st, "EngineProcessingError",
                  <<"Couldn't find ", target, ".">>, find)
        ELSE IF d.found # "GuiComboBox"
        THEN Fail(st, "EngineProcessingError",
                  <<"No valid target to set combo box key.">>, find)
        ELSE IF ~d.op
        THEN Fail(st, "EngineProcessingError",
                  <<"Can't set combo box key: ", "e">>, find \o <<"set_key">>)
        ELSE Done(st, <<>>, find \o <<"set_key">>)

\* Variant of ENGINE_sap_grid_get_row_count: the count is inserted under
\* the key of the table instruction.
ENGINE_sap_grid_get_row_count_WrongKey(st, i, d) ==
    LET s == get_session(st)
        find == <<"find_by_id", d.found>>
    IN  IF ~s.ok THEN Fail(st, "EngineProcessingError", s.reason, <<>>)
        ELSE IF d.found = NotFound
        THEN Fail(st, "EngineProcessingError", <<"Failed to find grid">>, find)
        ELSE IF d.found # "GuiGridView"
        THEN Fail(st, "EngineProcessingError", <<"The grid was invalid">>, find)
        ELSE IF ~d.op
        THEN Fail(st, "EngineProcessingError",
                  <<"The grid had no row count.">>, find \o <<"row_count">>)
        ELSE Output(st, P1("rows", IntegerValue(3)),
                    find \o <<"row_count", "output.insert">>)

ENGINE_sap_grid_get_row_count(st, i, d) ==
    LET s == get_session(st)
        find == <<"find_by_id", d.found>>
    IN  IF ~s.ok THEN Fail(st, "EngineProcessingError", s.reason, <<>>)
        ELSE IF d.found = NotFound
        THEN Fail(st, "EngineProcessingError", <<"Failed to find grid">>, find)
        ELSE IF d.found # "GuiGridView"
        THEN Fail(st, "EngineProcessingError", <<"The grid was invalid">>, find)
        ELSE IF ~d.op
        THEN Fail(st, "EngineProcessingError",
                  <<"The grid had no row count.">>, find \o <<"row_count">>)
        ELSE Output(st, P1("value", IntegerValue(3)),
                    find \o <<"row_count", "output.insert">>)

\* Variant of ENGINE_sap_grid_click_cell: the click is attempted even when
\* the cell could not be selected.
ENGINE_sap_grid_click_cell_Regardless(st, i, d) ==
    LET s == get_session(st)
        double == value_bool(i.parameters["double"])
        find == <<"find_by_id", d.found>>
        click == IF double THEN "double_click_current_cell"
                 ELSE "click_current_cell"
    IN  IF ~s.ok THEN Fail(st, "EngineProcessingError", s.reason, <<>>)
        ELSE IF d.found = NotFound
        THEN Fail(st, "EngineProcessingError", <<"Failed to find grid">>, find)
        ELSE IF d.found # "GuiGridView"
        THEN Fail(st, "EngineProcessingError", <<"The grid was invalid.">>,
                  find)
        ELSE IF ~d.op
        THEN Fail(st, "EngineProcessingError",
                  <<"Couldn't select cell in grid: ", "e">>,
                  find \o <<"set_current_cell", click>>)
        ELSE IF ~d.read
        THEN Fail(st, "EngineProcessingError",
                  IF double THEN <<"The grid couldn't be double clicked: ", "e">>
                  ELSE <<"The grid couldn't be clicked: ", "e">>,
                  find \o <<"set_current_cell", click>>)
        ELSE Done(st, <<>>, find \o <<"set_current_cell", click>>)

\* set_current_cell(row, col) first; its failure returns before any click.
\* Then double_click_current_cell or click_current_cell, by `double`.  The
\* outcome of the click is the driver's second answer, d.read.
ENGINE_sap_grid_click_cell(st, i, d) ==
    LET s == get_session(st)
        double == value_bool(i.parameters["double"])
        find == <<"find_by_id", d.found>>
        click == IF double THEN "double_click_current_cell"
                 ELSE "click_current_cell"
    IN  IF ~s.ok THEN Fail(st, "EngineProcessingError", s.reason, <<>>)
        ELSE IF d.found = NotFound
        THEN Fail(st, "EngineProcessingError", <<"Failed to find grid">>, find)
        ELSE IF d.found # "GuiGridView"
        THEN Fail(st, "EngineProcessingError", <<"The grid was invalid.">>,
                  find)
        ELSE IF ~d.op
        THEN Fail(st, "EngineProcessingError",
                  <<"Couldn't select cell in grid: ", "e">>,
                  find \o <<"set_current_cell">>)
        ELSE IF ~d.read
        THEN Fail(st, "EngineProcessingError",
                  IF double THEN <<"The grid couldn't be double clicked: ", "e">>
                  ELSE <<"The grid couldn't be clicked: ", "e">>,
                  find \o <<"set_current_cell", click>>)
        ELSE Done(st, <<>>, find \o <<"set_current_cell", click>>)

ENGINE_sap_grid_get_cell_value(st, i, d) ==
    LET s == get_session(st)
        find == <<"find_by_id", d.found>>
    IN  IF ~s.ok THEN Fail(st, "EngineProcessingError", s.reason, <<>>)
        ELSE IF d.found = NotFound
        THEN Fail(st, "EngineProcessingError", <<"Failed to find grid view">>,
                  find)
        ELSE IF d.found # "GuiGridView"
        THEN Fail(st, "EngineProcessingError", <<"The grid view was invalid">>,
                  find)
        ELSE IF ~d.op
        THEN Fail(st, "EngineProcessingError",
                  <<"The value couldn't be read: ", "e">>,
                  find \o <<"get_cell_value">>)
        ELSE Output(st, P1("value", StringValue("cell")),
                    find \o <<"get_cell_value", "output.insert">>)

ENGINE_sap_get_statusbar_state(st, i, d) ==
    LET s == get_session(st)
        find == <<"find_by_id", d.found>>
    IN  IF ~s.ok THEN Fail(st, "EngineProcessingError", s.reason, <<>>)
        ELSE IF d.found = NotFound
        THEN Fail(st, "EngineProcessingError", <<"Failed to find status bar">>,
                  find)
        ELSE IF d.found # "GuiStatusbar"
        THEN Fail(st, "EngineProcessingError", <<"The statusbar was invalid">>,
                  find)
        ELSE IF ~d.op
        THEN Fail(st, "EngineProcessingError",
                  <<"The statusbar had no message type.">>,
                  find \o <<"message_type">>)
        ELSE Output(st, P1("status", StringValue("S")),
                    find \o <<"message_type", "output.insert">>)

ENGINE_sap_tab_select(st, i, d) ==
    LET s == get_session(st)
        find == <<"find_by_id", d.found>>
    IN  IF ~s.ok THEN Fail(st, "EngineProcessingError", s.reason, <<>>)
        ELSE IF d.found = NotFound
        THEN Fail(st, "EngineProcessingError", <<"Failed to find tab">>, find)
        ELSE IF d.found # "GuiTab"
        THEN Fail(st, "EngineProcessingError", <<"The tab was invalid">>, find)
        ELSE IF ~d.op
        THEN Fail(st, "EngineProcessingError",
                  <<"The tab couldn't be selected.">>, find \o <<"select">>)
        ELSE Done(st, <<>>, find \o <<"select">>)

ENGINE_sap_table_get_row_count(st, i, d) ==
    LET s == get_session(st)
        find == <<"find_by_id", d.found>>
    IN  IF ~s.ok THEN Fail(st, "EngineProcessingError", s.reason, <<>>)
        ELSE IF d.found = NotFound
        THEN Fail(st, "EngineProcessingError", <<"Failed to find table">>, find)
        ELSE IF d.found # "GuiTableControl"
        THEN Fail(st, "EngineProcessingError", <<"The table was invalid">>,
                  find)
        ELSE IF ~d.op
        THEN Fail(st, "EngineProcessingError",
                  <<"Cannot read number of rows: ", "e">>,
                  find \o <<"row_count">>)
        ELSE Output(st, P1("rows", IntegerValue(3)),
                    find \o <<"row_count", "output.insert">>)

\* get_absolute_row(row), then set_selected(true) on the row; the outcome of
\* the selection is the driver's second answer, d.read.
ENGINE_sap_table_row_select(st, i, d) ==
    LET s == get_session(st)
        find == <<"find_by_id", d.found>>
    IN  IF ~s.ok THEN Fail(st, "EngineProcessingError", s.reason, <<>>)
        ELSE IF d.found = NotFound
        THEN Fail(st, "EngineProcessingError", <<"Failed to find tab">>, find)
        ELSE IF d.found # "GuiTableControl"
        THEN Fail(st, "EngineProcessingError", <<"The table was invalid">>,
                  find)
        ELSE IF ~d.op
        THEN Fail(st, "EngineProcessingError",
                  <<"Failed to get table row: ", "e">>,
                  find \o <<"get_absolute_row">>)
        ELSE IF ~d.read
        THEN Fail(st, "EngineProcessingError",
                  <<"Failed to select row: ", "e">>,
                  find \o <<"get_absolute_row", "set_selected">>)
        ELSE Done(st, <<>>, find \o <<"get_absolute_row", "set_selected">>)

\* get_cell(row, column) on a table control, then id() on the cell when its
\* kind is one of the arms; the outcome of id() is d.read.
ENGINE_sap_table_cell_get_id(st, i, d) ==
    LET s == get_session(st)
        find == <<"find_by_id", d.found>>
    IN  IF ~s.ok THEN Fail(st, "EngineProcessingError", s.reason, <<>>)
        ELSE IF d.found = NotFound
        THEN Fail(st, "EngineProcessingError", <<"Failed to find tab">>, find)
        ELSE IF d.found # "GuiTableControl"
        THEN Fail(st, "EngineProcessingError", <<"The table was invalid">>,
                  find)
        ELSE IF ~d.op
        THEN Fail(st, "EngineProcessingError",
                  <<"Failed to get table cell: ", "e">>, find \o <<"get_cell">>)
        ELSE IF d.cell \notin ENGINE_sap_table_cell_get_id_arms
        THEN Fail(st, "EngineProcessingError",
                  <<"Invalid component to get ID.">>, find \o <<"get_cell">>)
        ELSE IF ~d.read
        THEN Fail(st, "EngineProcessingError",
                  <<"Failed to get ID: ", "e">>, find \o <<"get_cell", "id">>)
        ELSE Output(st, P1("id", StringValue("wnd[0]/usr/tbl/cell")),
                    find \o <<"get_cell", "id", "output.insert">>)

\* The output names each descriptor declares with with_output.
ENGINE_outputs(id) ==
    CASE id = "sap-does-element-exist"  -> {"exists"}
      [] id = "sap-component-type"      -> {"type"}
      [] id = "sap-get-text-value"      -> {"value"}
      [] id = "sap-grid-get-row-count"  -> {"value"}
      [] id = "sap-grid-get-cell-value" -> {"value"}
      [] id = "sap-get-statusbar-state" -> {"status"}
      [] id = "sap-table-get-row-count" -> {"rows"}
      [] id = "sap-table-cell-get-id"   -> {"id"}
      [] OTHER                          -> {}

----------------------------------------------------------------------------
(* The executable: process_request of src/main.rs *)

EmptyMap == EmptyParams

Request(kind, batch) == [kind |-> kind, instructions |-> batch]

\* What is remembered of a request once the next one is read.
Summary ==
    [kind |-> request.kind,
     only |-> IF request.instructions = <<Call("sap-connect", EmptyParams)>>
              THEN request.instructions
              ELSE <<>>,
     type |-> response.type,
     before |-> before,
     printed |-> 0]

\* Variant of BlankSummary: a blank line is answered like any other line.
BlankSummary_Answered ==
    [kind |-> "Blank", only |-> <<>>, type |-> "Error", before |-> state,
     printed |-> 1]

\* What is remembered of a line that is empty once trimmed: `continue`.
BlankSummary ==
    [kind |-> "Blank", only |-> <<>>, type |-> "None", before |-> state,
     printed |-> 0]

Events(k, events) == [n \in 1..Len(events) |-> <<k, events[n]>>]

\* Variant of Iterate: an empty evidence list is not pushed.
Iterate_SkipEmpty(r, k, out, ev) ==
    IF r.panic
    THEN [pc |-> "aborted", idx |-> k - 1, output |-> out, evidence |-> ev,
          response |-> NoResponse, failedAt |-> k, pushed |-> <<>>]
    ELSE IF r.err.type = "Error"
    THEN [pc |-> "done", idx |-> k - 1, output |-> <<>>, evidence |-> <<>>,
          response |-> r.err, failedAt |-> k, pushed |-> <<>>]
    ELSE [pc |-> "running", idx |-> k, output |-> Append(out, EmptyMap),
          evidence |-> IF r.ev = <<>> THEN ev ELSE Append(ev, r.ev),
          response |-> NoResponse, failedAt |-> 0, pushed |-> <<"push">>]

\* Variant of Iterate: an Err answers with what was accumulated so far.
Iterate_Partial(r, k, out, ev) ==
    IF r.panic
    THEN [pc |-> "aborted", idx |-> k - 1, output |-> out, evidence |-> ev,
          response |-> NoResponse, failedAt |-> k, pushed |-> <<>>]
    ELSE IF r.err.type = "Error"
    THEN [pc |-> "done", idx |-> k - 1, output |-> out, evidence |-> ev,
          response |-> ExecutionOutput(out, ev), failedAt |-> k,
          pushed |-> <<>>]
    ELSE [pc |-> "running", idx |-> k, output |-> Append(out, EmptyMap),
          evidence |-> Append(ev, r.ev), response |-> NoResponse,
          failedAt |-> 0, pushed |-> <<"push">>]

\* Variant of Iterate: an Err is noted and the loop goes on to the next call.
Iterate_KeepGoing(r, k, out, ev) ==
    IF r.panic
    THEN [pc |-> "aborted", idx |-> k - 1, output |-> out, evidence |-> ev,
          response |-> NoResponse, failedAt |-> k, pushed |-> <<>>]
    ELSE IF r.err.type = "Error"
    THEN [pc |-> "running", idx |-> k, output |-> out, evidence |-> ev,
          response |-> r.err, failedAt |-> k, pushed |-> <<>>]
    ELSE [pc |-> "running", idx |-> k, output |-> Append(out, EmptyMap),
          evidence |-> Append(ev, r.ev), response |-> NoResponse,
          failedAt |-> 0, pushed |-> <<"push">>]

\* One pass through the body of `for i in instructions` for the call at
\* position k, given the result r of the branch taken: an Err returns the
\* Error response and drops the accumulators, otherwise the call's evidence
\* and (empty) output map are pushed.
Iterate(r, k, out, ev) ==
    IF r.panic
    THEN [pc |-> "aborted", idx |-> k - 1, output |-> out, evidence |-> ev,
          response |-> NoResponse, failedAt |-> k, pushed |-> <<>>]
    ELSE IF r.err.type = "Error"
    THEN [pc |-> "done", idx |-> k - 1, output |-> <<>>, evidence |-> <<>>,
          response |-> r.err, failedAt |-> k, pushed |-> <<>>]
    ELSE [pc |-> "running", idx |-> k, output |-> Append(out, EmptyMap),
          evidence |-> Append(ev, r.ev), response |-> NoResponse,
          failedAt |-> 0, pushed |-> <<"push">>]

\* The call handed a key code to GuiMainWindow::send_v_key.
Sent(r) == \E n \in DOMAIN r.events : r.events[n] = "send_v_key"

Serve(r) ==
    LET n == Iterate(r, idx + 1, output, evidence) IN
    /\ state' = r.state
    /\ pc' = n.pc
    /\ idx' = n.idx
    /\ output' = n.output
    /\ evidence' = n.evidence
    /\ response' = n.response
    /\ failedAt' = n.failedAt
    /\ trace' = trace \o Events(idx + 1, r.events \o n.pushed)
    /\ vkey' = IF Sent(r)
               THEN <<send_v_key_arg(request.instructions[idx + 1])>>
               ELSE vkey
    /\ UNCHANGED <<program, stdin, tpc, request, before, last>>

\* The driver outcomes that matter to a call that connects, to a call that
\* operates on a component, and to a call that touches no driver.
ConnectDraws ==
    {d \in DriverOutcomes : d.found = NotFound /\ ~d.op /\ ~d.read /\ ~d.remove}
OpDraws == {d \in DriverOutcomes : d.connect = "ok" /\ ~d.read /\ ~d.remove}
NoDraw == {d \in OpDraws : d.found = NotFound /\ ~d.op}
ScreenshotDraws == {d \in DriverOutcomes : d.connect = "ok"}

\* The executable, in either mode.
Main == program \in {"main", "main --request"}

InLoop ==
    /\ Main
    /\ pc = "running"
    /\ idx < Len(request.instructions)

\* Variant of Current: the batch is walked from its end.
Current_Reversed == request.instructions[Len(request.instructions) - idx]

Current == request.instructions[idx + 1]

RunInstructions ==
    /\ Main
    /\ pc = "idle"
    /\ stdin = "open"
    /\ \E batch \in Batches : request' = Request("RunInstructions", batch)
    /\ pc' = "running"
    /\ idx' = 0
    /\ output' = <<>>
    /\ evidence' = <<>>
    /\ response' = NoResponse
    /\ before' = state
    /\ trace' = <<>>
    /\ failedAt' = 0
    /\ vkey' = <<>>
    /\ UNCHANGED <<program, stdin, tpc, state, last>>

CallConnect ==
    /\ InLoop
    /\ Current.instruction = INSTRUCTION_CONNECT_TO_OPEN_INSTANCE.id
    /\ \E d \in ConnectDraws : Serve(ConnectToOpenInstance(state, Current, d))

CallRunTransaction ==
    /\ InLoop
    /\ Current.instruction = INSTRUCTION_RUN_TRANSACTION.id
    /\ \E d \in OpDraws : Serve(RunTransaction(state, Current, d))

CallSetTextValue ==
    /\ InLoop
    /\ Current.instruction = INSTRUCTION_SET_TEXT_VALUE.id
    /\ \E d \in OpDraws : Serve(SetTextValue(state, Current, d))

CallSendKey ==
    /\ InLoop
    /\ Current.instruction = INSTRUCTION_SEND_KEY.id
    /\ \E d \in OpDraws : Serve(SendKey(state, Current, d))

CallPressButton ==
    /\ InLoop
    /\ Current.instruction = INSTRUCTION_PRESS_BUTTON.id
    /\ \E d \in OpDraws : Serve(PressButton(state, Current, d))

\* The ids the if / else-if chain of the loop compares `i.instruction` with.
Dispatched ==
    {INSTRUCTION_CONNECT_TO_OPEN_INSTANCE.id, INSTRUCTION_RUN_TRANSACTION.id,
     INSTRUCTION_SET_TEXT_VALUE.id, INSTRUCTION_SEND_KEY.id,
     INSTRUCTION_PRESS_BUTTON.id}

CallInvalid ==
    /\ InLoop
    /\ Current.instruction \notin Dispatched
    /\ \E d \in NoDraw : Serve(InvalidInstruction(state, Current, d))

ReturnExecutionOutput ==
    /\ Main
    /\ pc = "running"
    /\ idx = Len(request.instructions)
    /\ response' = ExecutionOutput(output, evidence)
    /\ pc' = "done"
    /\ UNCHANGED <<program, stdin, tpc, state, request, idx, output, evidence,
                   before, trace, failedAt, vkey, last>>

\* A request served in one step.
Simple(kind, st, resp, nextpc) ==
    /\ Main
    /\ pc = "idle"
    /\ stdin = "open"
    /\ request' = Request(kind, <<>>)
    /\ state' = st
    /\ response' = resp
    /\ pc' = nextpc
    /\ idx' = 0
    /\ output' = <<>>
    /\ evidence' = <<>>
    /\ before' = state
    /\ trace' = <<>>
    /\ failedAt' = 0
    /\ vkey' = <<>>
    /\ UNCHANGED <<program, stdin, tpc, last>>

\* Variant of ResetStateResult: only the session is dropped.
ResetStateResult_SessionOnly(st) ==
    [state |-> [st EXCEPT !.session = None], response |-> StateReset]

\* *state = State::default(); Response::StateReset
ResetStateResult(st) == [state |-> DefaultState, response |-> StateReset]

ResetState ==
    LET r == ResetStateResult(state) IN
    Simple("ResetState", r.state, r.response, "done")

\* Variant of InstructionsResult: only sap-connect is offered while disconnected.
InstructionsResult_Connected(st) ==
    [state |-> st,
     response |-> IF st.session = None
                  THEN [InstructionsResponse EXCEPT
                           !.output = <<INSTRUCTION_CONNECT_TO_OPEN_INSTANCE.id>>]
                  ELSE InstructionsResponse]

\* Response::Instructions with the five descriptors; `state` is not touched.
InstructionsResult(st) == [state |-> st, response |-> InstructionsResponse]

Instructions ==
    LET r == InstructionsResult(state) IN
    Simple("Instructions", r.state, r.response, "done")

\* std::process::exit(0)
ShutDown == Simple("ShutDown", state, NoResponse, "exited")

----------------------------------------------------------------------------
(* The executable: a line that Request::try_from cannot decode *)

\* Variant of FailedToParse: the undecodable line is served as a ResetState.
FailedToParse_Reset(st) ==
    [state |-> DefaultState,
     response |-> ErrorResponse("FailedToParseIPCJson",
                                <<"The IPC message was invalid. (", "e", ")">>)]

\* The Error is printed; process_request is not called.
FailedToParse(st) ==
    [state |-> st,
     response |-> ErrorResponse("FailedToParseIPCJson",
                                <<"The IPC message was invalid. (", "e", ")">>)]

Undecodable ==
    LET r == FailedToParse(state) IN
    Simple("Undecodable", r.state, r.response, "done")

----------------------------------------------------------------------------
(* The library: ENGINE is a Mutex around the Engine and its State.  A     *)
(* caller thread locks it, the Engine serves the request by calling the   *)
(* registered handlers in turn, and the lock is released on return.       *)

Threads == 1..NThreads

LibBatches == SeqsUpTo(LibCalls, MaxBatch)

\* Variant of Lockable: the Engine is reached without the Mutex.
Lockable_NoMutex == TRUE

\* ENGINE.lock() succeeds only while no thread holds the guard.
Lockable == \A u \in Threads : tpc[u] = "out"

Locked == \E u \in Threads : tpc[u] = "in"

\* Variant of Releasable: the guard is dropped after every call.
Releasable_PerCall == pc \in {"running", "done"}

\* The guard lives until process_request has returned.
Releasable == pc = "done"

\* Engine::process_request, one call of the batch: Some(response) from the
\* handler is returned at once, None pushes the call's output and evidence.
LibIterate(r, k, out, ev) ==
    IF r.err.type = "Error"
    THEN [pc |-> "done", idx |-> k - 1, output |-> <<>>, evidence |-> <<>>,
          response |-> r.err, failedAt |-> k, pushed |-> <<>>]
    ELSE [pc |-> "running", idx |-> k, output |-> Append(out, r.out),
          evidence |-> Append(ev, r.ev), response |-> NoResponse,
          failedAt |-> 0, pushed |-> <<"push">>]

Handle(r) ==
    LET n == LibIterate(r, idx + 1, output, evidence) IN
    /\ state' = r.state
    /\ pc' = n.pc
    /\ idx' = n.idx
    /\ output' = n.output
    /\ evidence' = n.evidence
    /\ response' = n.response
    /\ failedAt' = n.failedAt
    /\ trace' = trace \o Events(idx + 1, r.events \o n.pushed)
    /\ vkey' = IF Sent(r)
               THEN <<ENGINE_send_v_key_arg(request.instructions[idx + 1])>>
               ELSE vkey
    /\ UNCHANGED <<program, stdin, tpc, request, before, last>>

LibInLoop ==
    /\ program = "lib"
    /\ Locked
    /\ pc = "running"
    /\ idx < Len(request.instructions)

LibRunInstructions ==
    /\ program = "lib"
    /\ \E t \in Threads :
          /\ tpc[t] = "out"
          /\ Lockable
          /\ tpc' = [tpc EXCEPT ![t] = "in"]
    /\ \E batch \in LibBatches : request' = Request("RunInstructions", batch)
    /\ pc' = "running"
    /\ idx' = 0
    /\ output' = <<>>
    /\ evidence' = <<>>
    /\ response' = NoResponse
    /\ before' = state
    /\ trace' = <<>>
    /\ failedAt' = 0
    /\ vkey' = <<>>
    /\ UNCHANGED <<program, stdin, state, last>>

\* Engine::process_request on ResetState: the State is replaced by its default.
LibResetState ==
    /\ program = "lib"
    /\ \E t \in Threads :
          /\ tpc[t] = "out"
          /\ Lockable
          /\ tpc' = [tpc EXCEPT ![t] = "in"]
    /\ request' = Request("ResetState", <<>>)
    /\ state' = DefaultState
    /\ response' = StateReset
    /\ pc' = "done"
    /\ idx' = 0
    /\ output' = <<>>
    /\ evidence' = <<>>
    /\ before' = state
    /\ trace' = <<>>
    /\ failedAt' = 0
    /\ vkey' = <<>>
    /\ UNCHANGED <<program, stdin, last>>

HandleConnect ==
    /\ LibInLoop
    /\ Current.instruction = "sap-connect"
    /\ \E d \in ConnectDraws : Handle(ENGINE_sap_connect(state, Current, d))

HandleRunTransaction ==
    /\ LibInLoop
    /\ Current.instruction = "sap-run-transaction"
    /\ \E d \in OpDraws : Handle(ENGINE_sap_run_transaction(state, Current, d))

HandleScreenshot ==
    /\ LibInLoop
    /\ Current.instruction = "sap-screenshot"
    /\ \E d \in ScreenshotDraws : Handle(ENGINE_sap_screenshot(state, Current, d))

HandleSetTextValue ==
    /\ LibInLoop
    /\ Current.instruction = "sap-set-text-value"
    /\ \E d \in OpDraws : Handle(ENGINE_sap_set_text_value(state, Current, d))

HandleSendKey ==
    /\ LibInLoop
    /\ Current.instruction = "sap-send-key"
    /\ \E d \in OpDraws : Handle(ENGINE_sap_send_key(state, Current, d))

HandlePressButton ==
    /\ LibInLoop
    /\ Current.instruction = "sap-press-button"
    /\ \E d \in OpDraws : Handle(ENGINE_sap_press_button(state, Current, d))

LibExecutionOutput ==
    /\ program = "lib"
    /\ Locked
    /\ pc = "running"
    /\ idx = Len(request.instructions)
    /\ response' = ExecutionOutput(output, evidence)
    /\ pc' = "done"
    /\ UNCHANGED <<program, stdin, tpc, state, request, idx, output, evidence,
                   before, trace, failedAt, vkey, last>>

\* The thread leaves the Engine: the guard is dropped.  The Engine's own
\* record of the request is cleared once the request has been answered.
Unlock ==
    /\ program = "lib"
    /\ Locked
    /\ Releasable
    /\ tpc' = [t \in Threads |-> "out"]
    /\ IF pc = "done"
       THEN /\ pc' = "idle"
            /\ last' = Summary
            /\ request' = Request("none", <<>>)
            /\ idx' = 0
            /\ output' = <<>>
            /\ evidence' = <<>>
            /\ response' = NoResponse
            /\ before' = state
            /\ trace' = <<>>
            /\ failedAt' = 0
            /\ vkey' = <<>>
       ELSE UNCHANGED <<pc, last, request, idx, output, evidence, response,
                        before, trace, failedAt, vkey>>
    /\ UNCHANGED <<program, stdin, state>>

----------------------------------------------------------------------------
(* The library, one handler at a time: every instruction registered on    *)
(* ENGINE, over every component kind the driver can resolve a target to.  *)

\* The kinds a table cell is drawn from: one that has an id() arm and one
\* that falls through to the catch-all arm.
CellKinds == {"GuiTextField", "GuiSession"}

\* What the driver answers during one handler: the kind find_by_id resolves
\* the target to (or that it finds nothing), the outcome of the first and of
\* the second driver or file call, of the file removal, and the kind of the
\* cell a table hands out.
HandlerDraws ==
    [connect : {"ok"}, found : SAPComponent \cup {NotFound}, op : BOOLEAN,
     read : BOOLEAN, remove : BOOLEAN, cell : CellKinds]

Label == "wnd[0]/usr/lbl"

\* For every registered instruction the calls that match its descriptor.
HandlerCalls ==
    { Call("sap-connect", EmptyParams),
      Call("sap-run-transaction", P1("tcode", StringValue("VA01"))),
      Call("sap-screenshot",
           P2("label", StringValue("shot"), "target", StringValue(Target))),
      Call("sap-does-element-exist", P1("target", StringValue(Target))),
      Call("sap-component-type", P1("target", StringValue(Target))),
      Call("sap-visualise-element", P1("target", StringValue(Target))),
      Call("sap-set-text-value",
           P2("target", StringValue(Target), "value", StringValue("x"))),
      Call("sap-get-text-value", P1("target", StringValue(Target))),
      Call("sap-get-text-value", P1("target", StringValue(Label))),
      Call("sap-send-key", P1("key", IntegerValue(65544))),
      Call("sap-press-button", P1("target", StringValue(Target))),
      Call("sap-set-combobox-key",
           P2("target", StringValue(Target), "key", StringValue("k"))),
      Call("sap-grid-get-row-count", P1("target", StringValue(Target))),
      Call("sap-get-statusbar-state", P1("target", StringValue(Target))),
      Call("sap-tab-select", P1("target", StringValue(Target))),
      Call("sap-table-get-row-count", P1("target", StringValue(Target))),
      Call("sap-table-row-select",
           P2("target", StringValue(Target), "row", IntegerValue(1))) }
    \cup { Call("sap-set-checkbox",
                P2("target", StringValue(Target), "state", BooleanValue(b))) :
           b \in BOOLEAN }
    \cup { Call("sap-grid-click-cell",
                [x \in {"target", "row", "col", "double"} |->
                    CASE x = "target" -> StringValue(Target)
                      [] x = "row"    -> IntegerValue(1)
                      [] x = "col"    -> StringValue("c")
                      [] x = "double" -> BooleanValue(b)]) : b \in BOOLEAN }
    \cup { Call("sap-grid-get-cell-value",
                [x \in {"target", "row", "col"} |->
                    CASE x = "target" -> StringValue(Target)
                      [] x = "row"    -> IntegerValue(1)
                      [] x = "col"    -> StringValue("c")]),
           Call("sap-table-cell-get-id",
                [x \in {"target", "row", "column"} |->
                    CASE x = "target" -> StringValue(Target)
                      [] x = "row"    -> IntegerValue(1)
                      [] x = "column" -> IntegerValue(2)]) }

\* A batch is one call, alone or behind the sap-connect that opens the
\* session for it.
HandlerBatches ==
    {<<c>> : c \in HandlerCalls}
        \cup {<<Call("sap-connect", EmptyParams), c>> : c \in HandlerCalls}

HandlerRunInstructions ==
    /\ program = "lib"
    /\ \E t \in Threads :
          /\ tpc[t] = "out"
          /\ Lockable
          /\ tpc' = [tpc EXCEPT ![t] = "in"]
    /\ \E batch \in HandlerBatches :
          request' = Request("RunInstructions", batch)
    /\ pc' = "running"
    /\ idx' = 0
    /\ output' = <<>>
    /\ evidence' = <<>>
    /\ response' = NoResponse
    /\ before' = state
    /\ trace' = <<>>
    /\ failedAt' = 0
    /\ vkey' = <<>>
    /\ UNCHANGED <<program, stdin, state, last>>

ExecRunTransaction ==
    /\ LibInLoop
    /\ Current.instruction = "sap-run-transaction"
    /\ \E d \in HandlerDraws : Handle(ENGINE_sap_run_transaction(state, Current, d))

ExecScreenshot ==
    /\ LibInLoop
    /\ Current.instruction = "sap-screenshot"
    /\ \E d \in HandlerDraws : Handle(ENGINE_sap_screenshot(state, Current, d))

ExecDoesElementExist ==
    /\ LibInLoop
    /\ Current.instruction = "sap-does-element-exist"
    /\ \E d \in HandlerDraws : Handle(ENGINE_sap_does_element_exist(state, Current, d))

ExecComponentType ==
    /\ LibInLoop
    /\ Current.instruction = "sap-component-type"
    /\ \E d \in HandlerDraws : Handle(ENGINE_sap_component_type(state, Current, d))

ExecVisualiseElement ==
    /\ LibInLoop
    /\ Current.instruction = "sap-visualise-element"
    /\ \E d \in HandlerDraws : Handle(ENGINE_sap_visualise_element(state, Current, d))

ExecSetTextValue ==
    /\ LibInLoop
    /\ Current.instruction = "sap-set-text-value"
    /\ \E d \in HandlerDraws : Handle(ENGINE_sap_set_text_value(state, Current, d))

ExecGetTextValue ==
    /\ LibInLoop
    /\ Current.instruction = "sap-get-text-value"
    /\ \E d \in HandlerDraws : Handle(ENGINE_sap_get_text_value(state, Current, d))

ExecSendKey ==
    /\ LibInLoop
    /\ Current.instruction = "sap-send-key"
    /\ \E d \in HandlerDraws : Handle(ENGINE_sap_send_key(state, Current, d))

ExecPressButton ==
    /\ LibInLoop
    /\ Current.instruction = "sap-press-button"
    /\ \E d \in HandlerDraws : Handle(ENGINE_sap_press_button(state, Current, d))

ExecSetCheckbox ==
    /\ LibInLoop
    /\ Current.instruction = "sap-set-checkbox"
    /\ \E d \in HandlerDraws : Handle(ENGINE_sap_set_checkbox(state, Current, d))

ExecSetComboboxKey ==
    /\ LibInLoop
    /\ Current.instruction = "sap-set-combobox-key"
    /\ \E d \in HandlerDraws : Handle(ENGINE_sap_set_combobox_key(state, Current, d))

ExecGridGetRowCount ==
    /\ LibInLoop
    /\ Current.instruction = "sap-grid-get-row-count"
    /\ \E d \in HandlerDraws : Handle(ENGINE_sap_grid_get_row_count(state, Current, d))

ExecGridClickCell ==
    /\ LibInLoop
    /\ Current.instruction = "sap-grid-click-cell"
    /\ \E d \in HandlerDraws : Handle(ENGINE_sap_grid_click_cell(state, Current, d))

ExecGridGetCellValue ==
    /\ LibInLoop
    /\ Current.instruction = "sap-grid-get-cell-value"
    /\ \E d \in HandlerDraws : Handle(ENGINE_sap_grid_get_cell_value(state, Current, d))

ExecGetStatusbarState ==
    /\ LibInLoop
    /\ Current.instruction = "sap-get-statusbar-state"
    /\ \E d \in HandlerDraws : Handle(ENGINE_sap_get_statusbar_state(state, Current, d))

ExecTabSelect ==
    /\ LibInLoop
    /\ Current.instruction = "sap-tab-select"
    /\ \E d \in HandlerDraws : Handle(ENGINE_sap_tab_select(state, Current, d))

ExecTableGetRowCount ==
    /\ LibInLoop
    /\ Current.instruction = "sap-table-get-row-count"
    /\ \E d \in HandlerDraws : Handle(ENGINE_sap_table_get_row_count(state, Current, d))

ExecTableRowSelect ==
    /\ LibInLoop
    /\ Current.instruction = "sap-table-row-select"
    /\ \E d \in HandlerDraws : Handle(ENGINE_sap_table_row_select(state, Current, d))

ExecTableCellGetId ==
    /\ LibInLoop
    /\ Current.instruction = "sap-table-cell-get-id"
    /\ \E d \in HandlerDraws : Handle(ENGINE_sap_table_cell_get_id(state, Current, d))

----------------------------------------------------------------------------
(* The lines of repl_loop that are no request *)

\* buf.is_empty(): the loop goes back to read_line and nothing is printed.
BlankLine ==
    /\ program = "main"
    /\ pc = "idle"
    /\ stdin = "open"
    /\ last' = BlankSummary
    /\ UNCHANGED <<program, stdin, tpc, state, pc, request, idx, output,
                   evidence, response, before, trace, failedAt, vkey>>

\* buf == "\x04": repl_loop returns Ok(()) and main ends.
EndMarker ==
    /\ program = "main"
    /\ Simple("EndMarker", state, NoResponse, "exited")

\* Standard input is at end of file: read_line returns Ok(0) and leaves buf
\* empty.
EndOfFile ==
    /\ program = "main"
    /\ pc = "idle"
    /\ stdin' = "closed"
    /\ pc' = "empty"
    /\ UNCHANGED <<program, tpc, state, request, idx, output, evidence,
                   response, before, trace, failedAt, vkey, last>>

\* The empty buf is neither "\x04" nor a request: the loop takes the
\* `continue` of the blank line and calls read_line again.
ReadAgain ==
    /\ program = "main"
    /\ pc = "empty"
    /\ pc' = "idle"
    /\ last' = BlankSummary
    /\ UNCHANGED <<program, stdin, tpc, state, request, idx, output, evidence,
                   response, before, trace, failedAt, vkey>>

----------------------------------------------------------------------------
(* The response is handed over and the next request is awaited: println! *)
(* and the next turn of repl_loop, or the end of main with --request.     *)

Continue ==
    /\ Main
    /\ pc = "done"
    /\ pc' = IF program = "main" THEN "idle" ELSE "exited"
    /\ last' = [Summary EXCEPT !.printed = 1]
    /\ request' = Request("none", <<>>)
    /\ idx' = 0
    /\ output' = <<>>
    /\ evidence' = <<>>
    /\ response' = NoResponse
    /\ before' = state
    /\ trace' = <<>>
    /\ failedAt' = 0
    /\ vkey' = <<>>
    /\ UNCHANGED <<program, stdin, tpc, state>>

----------------------------------------------------------------------------
(* Specification *)

Init ==
    /\ program \in {"main", "main --request", "lib"}
    /\ stdin = "open"
    /\ tpc = [t \in Threads |-> "out"]
    /\ state = DefaultState
    /\ pc = "idle"
    /\ request = Request("none", <<>>)
    /\ idx = 0
    /\ output = <<>>
    /\ evidence = <<>>
    /\ response = NoResponse
    /\ before = DefaultState
    /\ trace = <<>>
    /\ failedAt = 0
    /\ vkey = <<>>
    /\ last = [kind |-> "none", only |-> <<>>, type |-> "None",
               before |-> DefaultState, printed |-> 0]

Next ==
    \/ RunInstructions
    \/ CallConnect
    \/ CallRunTransaction
    \/ CallSetTextValue
    \/ CallSendKey
    \/ CallPressButton
    \/ CallInvalid
    \/ ReturnExecutionOutput
    \/ ResetState
    \/ Instructions
    \/ ShutDown
    \/ Undecodable
    \/ BlankLine
    \/ EndMarker
    \/ EndOfFile
    \/ ReadAgain
    \/ Continue
    \/ LibRunInstructions
    \/ LibResetState
    \/ HandleConnect
    \/ HandleRunTransaction
    \/ HandleScreenshot
    \/ HandleSetTextValue
    \/ HandleSendKey
    \/ HandlePressButton
    \/ LibExecutionOutput
    \/ Unlock

Spec == Init /\ [][Next]_vars

\* Every step that can be taken is taken: the program is not suspended.
FairSpec == Spec /\ WF_vars(Next)

HandlerInit == Init /\ program = "lib"

HandlerNext ==
    \/ HandlerRunInstructions
    \/ LibResetState
    \/ HandleConnect
    \/ ExecRunTransaction
    \/ ExecScreenshot
    \/ ExecDoesElementExist
    \/ ExecComponentType
    \/ ExecVisualiseElement
    \/ ExecSetTextValue
    \/ ExecGetTextValue
    \/ ExecSendKey
    \/ ExecPressButton
    \/ ExecSetCheckbox
    \/ ExecSetComboboxKey
    \/ ExecGridGetRowCount
    \/ ExecGridClickCell
    \/ ExecGridGetCellValue
    \/ ExecGetStatusbarState
    \/ ExecTabSelect
    \/ ExecTableGetRowCount
    \/ ExecTableRowSelect
    \/ ExecTableCellGetId
    \/ LibExecutionOutput
    \/ Unlock

\* The library driven with every instruction and every component kind.
HandlerSpec == HandlerInit /\ [][HandlerNext]_vars

----------------------------------------------------------------------------
(* Properties *)

CatalogIds == {Catalog[k].id : k \in 1..Len(Catalog)}

Descriptor(id) == CHOOSE c \in {Catalog[k] : k \in 1..Len(Catalog)} : c.id = id

Batch == Main /\ request.kind = "RunInstructions"

ConnectAttempts == Cardinality({n \in DOMAIN trace : trace[n][2] = "connect"})

Pushed(k) == \E n \in DOMAIN trace : trace[n] = <<k, "push">>

\* What find_by_id can answer.
Found == Kinds \cup {NotFound}

\* What a call of each instruction may do.
EventsOf(id) ==
    CASE id = "sap-connect"         -> {"validate", "connect", "push"}
      [] id = "sap-run-transaction" -> {"validate", "start_transaction", "push"}
      [] id = "sap-set-text-value"  ->
            {"validate", "find_by_id", "set_text", "push"} \cup Found
      [] id = "sap-send-key"        ->
            {"validate", "find_by_id", "send_v_key", "push"} \cup Found
      [] id = "sap-press-button"    ->
            {"validate", "find_by_id", "press", "push"} \cup Found
      [] OTHER                      -> {}

\* C1: a batch whose call at position k is the first to fail is answered by
\* one Error that carries no output and no evidence, never by an
\* ExecutionOutput; the k-1 entries accumulated before it are not returned.
C1_AllOrError ==
    (Batch /\ pc = "done") =>
        /\ response.type \in {"Error", "ExecutionOutput"}
        /\ (failedAt > 0) <=> (response.type = "Error")
        /\ failedAt > 0 =>
              /\ \A j \in 1..(failedAt - 1) : Pushed(j)
              /\ ~Pushed(failedAt)
              /\ response.output = <<>>
              /\ response.evidence = <<>>
        /\ response.type = "ExecutionOutput" =>
              \A j \in 1..Len(request.instructions) : Pushed(j)

C1_Witness ==
    /\ Batch /\ pc = "done"
    /\ failedAt = 2
    /\ <<1, "start_transaction">> \in {trace[n] : n \in DOMAIN trace}
    /\ response.type = "Error"

\* C2: the calls of a batch are served in submitted order: every event of
\* the call at position j+1 comes after the call at position j has pushed
\* its output and evidence, and the events at a position are those of the
\* instruction submitted at that position.
C2_InOrder ==
    Batch =>
        /\ pc = "running" => Len(output) = idx /\ Len(evidence) = idx
        /\ \A m \in DOMAIN trace :
              /\ trace[m][1] \in 1..Len(request.instructions)
              /\ \A n \in 1..(m - 1) : trace[n][1] <= trace[m][1]
              /\ \A j \in 1..(trace[m][1] - 1) :
                    \E n \in 1..(m - 1) : trace[n] = <<j, "push">>
              /\ trace[m][2] \in
                    EventsOf(request.instructions[trace[m][1]].instruction)

C2_Witness ==
    /\ Batch /\ pc = "done"
    /\ \E n, m \in DOMAIN trace :
          /\ n < m
          /\ trace[n] = <<1, "connect">>
          /\ trace[m] = <<2, "start_transaction">>

\* C3: once the call at position k has failed the loop is left: no call at
\* a later position is validated or executed, no further driver call or
\* connect attempt is made, and no event of the batch is repeated.
C3_FailFast ==
    (Batch /\ failedAt > 0) =>
        /\ pc \in {"done", "aborted"}
        /\ \A m \in DOMAIN trace : trace[m][1] <= failedAt
        /\ \A n, m \in DOMAIN trace : trace[n] = trace[m] => n = m

C3_Witness ==
    /\ Batch /\ pc = "done"
    /\ failedAt = 1
    /\ Len(request.instructions) = 2
    /\ request.instructions[2].instruction = "sap-connect"
    /\ state.session = None

\* C4: a call whose id is not in the catalog is answered with an Error of
\* kind InvalidInstruction and leaves the State as it was, with no connect
\* attempt and no driver call.
C4_UnknownId ==
    [][(InLoop /\ Current.instruction \notin CatalogIds) =>
          /\ response'.type = "Error"
          /\ response'.kind = "InvalidInstruction"
          /\ state' = state
          /\ trace' = trace]_vars

C4_Witness ==
    /\ Batch /\ pc = "done"
    /\ failedAt = 2
    /\ response.kind = "InvalidInstruction"
    /\ state.session = Some

\* C5: a call that misses a declared parameter or carries one of the wrong
\* kind is answered with a validation error, and validation is the only
\* thing the call does: no connect attempt, no driver call, State untouched.
C5_ValidateFirst ==
    [][(/\ InLoop
        /\ Current.instruction \in CatalogIds
        /\ ~Validate(Descriptor(Current.instruction), Current).ok) =>
          /\ response'.type = "Error"
          /\ response'.kind \in {"MissingParameter", "InvalidParameterType"}
          /\ state' = state
          /\ trace' = Append(trace, <<idx + 1, "validate">>)]_vars

C5_Witness ==
    /\ Batch /\ pc = "done"
    /\ response.kind = "MissingParameter"
    /\ request.instructions[failedAt].instruction = "sap-set-text-value"
    /\ state.session = Some

\* C6: ResetState answers StateReset from any state and leaves the State
\* fully disconnected; a ResetState that follows a ResetState leaves the
\* State as the first one left it.
C6_Reset ==
    (request.kind = "ResetState" /\ pc = "done") =>
        /\ response = StateReset
        /\ state = DefaultState
        /\ last.kind = "ResetState" => state = before

C6_Witness ==
    /\ request.kind = "ResetState" /\ pc = "done"
    /\ last.kind = "ResetState"
    /\ last.before.session = Some
    /\ last.before.com_instance = Some

ConnectBatch == <<Call("sap-connect", EmptyParams)>>

Connected(st) == st.com_instance = Some /\ st.session = Some

\* C7: a single sap-connect against a disconnected State makes exactly one
\* connect attempt; the same request repeated after it succeeded makes no
\* connect attempt, succeeds and leaves the State as it was.
C7_LazyConnect ==
    (request.instructions = ConnectBatch /\ pc = "done") =>
        /\ before = DefaultState =>
              /\ ConnectAttempts = 1
              /\ response.type # "Error" => Connected(state)
        /\ (/\ last.only = ConnectBatch
            /\ last.before = DefaultState
            /\ last.type # "Error") =>
              /\ ConnectAttempts = 0
              /\ response.type # "Error"
              /\ state = before
              /\ Connected(state)

C7_Witness ==
    /\ request.instructions = ConnectBatch /\ pc = "done"
    /\ last.only = ConnectBatch
    /\ last.before = DefaultState
    /\ last.type # "Error"
    /\ response.type # "Error"

NeedsSession == {"sap-run-transaction", "sap-set-text-value", "sap-send-key",
                 "sap-press-button"}

ConnectedOrFailed(k) ==
    \/ \E n \in DOMAIN trace' : trace'[n] = <<k, "connect">>
    \/ response'.type = "Error" /\ response'.kind = "EngineProcessingError"

\* C8: an instruction that needs a session, executed while the State holds
\* no session, either connects first or fails with EngineProcessingError.
C8_EnsureConnected ==
    [][/\ (/\ InLoop
           /\ Current.instruction \in NeedsSession
           /\ Validate(Descriptor(Current.instruction), Current).ok
           /\ pc' # "aborted"
           /\ state.session = None) => ConnectedOrFailed(idx + 1)
       /\ (/\ LibInLoop
           /\ Current.instruction \in NeedsSession
           /\ state.session = None) => ConnectedOrFailed(idx + 1)]_vars

ConnectFailed ==
    /\ pc = "done"
    /\ response.type = "Error"
    /\ trace # <<>>
    /\ trace[Len(trace)][2] = "connect"

\* C9: a connect attempt that fails, at whichever step, leaves com_instance
\* and session as they were (None) and is answered with
\* EngineProcessingError; the sap-connect that follows a failed one makes a
\* full connect attempt of its own.
C9_NotPoisoned ==
    /\ ConnectFailed =>
          /\ state = DefaultState
          /\ state = before
          /\ response.kind = "EngineProcessingError"
          /\ response.reason \in
                {ConnectError(o) : o \in ConnectOutcomes \ {"ok"}}
    /\ (/\ request.instructions = ConnectBatch /\ pc = "done"
        /\ last.only = ConnectBatch
        /\ last.type = "Error") =>
          /\ before = DefaultState
          /\ ConnectAttempts = 1
          /\ response.type # "Error" => Connected(state)

C9_Witness ==
    /\ request.instructions = ConnectBatch /\ pc = "done"
    /\ last.only = ConnectBatch
    /\ last.type = "Error"
    /\ response.type # "Error"
    /\ Connected(state)

\* C10: the call that fails, and the Error return that follows it, leave
\* the State as the earlier calls of the batch left it, and the events of
\* the earlier calls stay as they were: nothing is rolled back.
C10_NoRollback ==
    [][(InLoop /\ failedAt' > 0) =>
          /\ state' = state
          /\ Len(trace') >= Len(trace)
          /\ \A n \in DOMAIN trace : trace'[n] = trace[n]]_vars

C10_Witness ==
    /\ Batch /\ pc = "done"
    /\ failedAt = 2
    /\ before = DefaultState
    /\ Connected(state)
    /\ response.type = "Error"

RunReq == request.kind = "RunInstructions"

Positions == 1..Len(request.instructions)

TraceSet == {trace[n] : n \in DOMAIN trace}

Range(q) == {q[n] : n \in DOMAIN q}

IdAt(k) == request.instructions[k].instruction

\* C11: an ExecutionOutput answers a batch of n calls with n output maps and
\* n evidence lists, entry k being what the call at position k produced.
C11_Aligned ==
    (Batch /\ pc = "done" /\ response.type = "ExecutionOutput") =>
        /\ Len(response.output) = Len(request.instructions)
        /\ Len(response.evidence) = Len(request.instructions)
        /\ \A k \in Positions :
              /\ response.output[k] = EmptyMap
              /\ response.evidence[k] =
                    IF IdAt(k) = "sap-run-transaction"
                    THEN <<[label |-> "SAP Transaction",
                            content |->
                               <<"Ran transaction '",
                                 request.instructions[k].parameters["tcode"].s,
                                 "'.">>]>>
                    ELSE <<>>

C11_Witness ==
    /\ Batch /\ pc = "done" /\ response.type = "ExecutionOutput"
    /\ Len(request.instructions) = 2
    /\ IdAt(1) = "sap-connect"
    /\ IdAt(2) = "sap-run-transaction"
    /\ Len(response.evidence) = 2

\* C12: a line that cannot be decoded is answered with an Error of kind
\* FailedToParseIPCJson without process_request being entered: the State
\* is untouched, the driver is not called, and the REPL reads the next line.
C12_ParseFailure ==
    /\ request.kind = "Undecodable" =>
          /\ pc = "done"
          /\ response.type = "Error"
          /\ response.kind = "FailedToParseIPCJson"
          /\ state = before
          /\ trace = <<>>
    /\ (program = "main" /\ last.kind = "Undecodable" /\ request.kind = "none")
          => pc \in {"idle", "empty"}

C12_Witness ==
    /\ program = "main"
    /\ last.kind = "Undecodable"
    /\ last.before.session = Some
    /\ request.kind = "RunInstructions"
    /\ <<1, "start_transaction">> \in TraceSet
    /\ response.type = "ExecutionOutput"

\* C13: an Instructions request is answered with the five descriptors in
\* registration order, whatever the State, and leaves the State unchanged.
C13_Catalog ==
    (request.kind = "Instructions" /\ pc = "done") =>
        /\ response.type = "Instructions"
        /\ response.output = <<"sap-connect", "sap-run-transaction",
                               "sap-set-text-value", "sap-send-key",
                               "sap-press-button">>
        /\ state = before

C13_Witness ==
    /\ request.kind = "Instructions" /\ pc = "done"
    /\ Connected(state)
    /\ last.kind = "RunInstructions"

\* The kinds each instruction operates on.
Accepts(id) ==
    CASE id = "sap-screenshot"     -> {"GuiMainWindow", "GuiFrameWindow"}
      [] id = "sap-set-text-value" -> {"GuiTextField", "GuiCTextField"}
      [] id = "sap-send-key"       -> {"GuiMainWindow"}
      [] id = "sap-press-button"   -> {"GuiButton"}
      [] id = "sap-component-type" -> ENGINE_sap_component_type_arms
      [] id = "sap-visualise-element" -> ENGINE_sap_component_type_arms
      [] id = "sap-get-text-value" ->
            {"GuiTextField", "GuiCTextField", "GuiFrameWindow",
             "GuiMainWindow"}
      [] id = "sap-set-checkbox"   -> {"GuiCheckBox"}
      [] id = "sap-set-combobox-key" -> {"GuiComboBox"}
      [] id \in {"sap-grid-get-row-count", "sap-grid-click-cell",
                 "sap-grid-get-cell-value"} -> {"GuiGridView"}
      [] id = "sap-get-statusbar-state" -> {"GuiStatusbar"}
      [] id = "sap-tab-select"     -> {"GuiTab"}
      [] id \in {"sap-table-get-row-count", "sap-table-row-select",
                 "sap-table-cell-get-id"} -> {"GuiTableControl"}
      [] OTHER                     -> SAPComponent

OpEvents == {"hard_copy", "read", "remove_file", "set_text", "send_v_key",
             "press"}

\* The call at position k resolved its target to a kind it does not accept.
Mismatch(k) ==
    \E K \in Kinds : <<k, K>> \in TraceSet /\ K \notin Accepts(IdAt(k))

\* C14: a kind that does not support the operation makes the call
\* fail with an error that names the component's actual kind.
C14_NamesKind ==
    RunReq =>
        \A k \in Positions :
            Mismatch(k) =>
                /\ response.type = "Error"
                /\ \E K \in Kinds :
                      <<k, K>> \in TraceSet /\ K \in Range(response.reason)

HasTarget == {"sap-screenshot", "sap-set-text-value", "sap-press-button"}

\* The call at position k asked the driver for its target and got nothing.
TargetNotFound(k) == IdAt(k) \in HasTarget /\ <<k, NotFound>> \in TraceSet

\* C15: a target the driver cannot locate makes the call fail with
\* EngineProcessingError and a reason that carries the address.
C15_CarriesAddress ==
    RunReq =>
        \A k \in Positions :
            TargetNotFound(k) =>
                /\ response.type = "Error"
                /\ response.kind = "EngineProcessingError"
                /\ \E a \in Range(response.reason) :
                      a \in {v.s : v \in Range(request.instructions[k].parameters)}
                      /\ a # ""

Inside == {t \in Threads : tpc[t] = "in"}

\* C16: at most one caller thread is inside the Engine at any time, and a
\* request is being served only while a thread holds the lock.
C16_Serialized ==
    program = "lib" =>
        /\ Cardinality(Inside) <= 1
        /\ pc \in {"running", "done"} <=> Inside # {}
        /\ pc \in {"idle", "running", "done"}

C16_Witness ==
    /\ program = "lib"
    /\ tpc[2] = "in"
    /\ pc = "running"
    /\ idx = 1
    /\ last.kind = "ResetState"

\* C17: while a batch is running the lock does not change hands and the
\* request being served stays the same; the State changes only by a call of
\* the batch, so each call finds the State the previous call left.
C17_WholeBatch ==
    [][(program = "lib" /\ pc = "running") =>
          /\ tpc' = tpc
          /\ request' = request
          /\ state' # state => idx' = idx + 1]_vars

C17_Witness ==
    /\ program = "lib"
    /\ pc = "running"
    /\ idx = 1
    /\ Len(request.instructions) = 2
    /\ IdAt(2) = "sap-run-transaction"
    /\ before = DefaultState
    /\ Connected(state)

\* C18: an Error is of kind FailedToParseIPCJson exactly for an undecodable
\* line, of kind InvalidInstruction exactly for an unknown id, of a
\* validation kind exactly for a call that does not match its descriptor,
\* and of kind EngineProcessingError for every failure raised while the
\* instruction executes.
C18_ErrorKinds ==
    response.type = "Error" =>
        IF request.kind = "Undecodable"
        THEN response.kind = "FailedToParseIPCJson"
        ELSE /\ failedAt \in Positions
             /\ LET c == request.instructions[failedAt] IN
                IF Main /\ c.instruction \notin CatalogIds
                THEN response.kind = "InvalidInstruction"
                ELSE IF Main /\ ~Validate(Descriptor(c.instruction), c).ok
                THEN response.kind \in {"MissingParameter", "InvalidParameterType"}
                ELSE response.kind = "EngineProcessingError"

C18_Witness ==
    /\ program = "lib"
    /\ response.type = "Error"
    /\ response.kind = "EngineProcessingError"
    /\ response.reason = <<"Failed to read screenshot: ", "e">>

\* C19: every sap-run-transaction call of a batch answered with
\* ExecutionOutput has, in its evidence list, an item that records the
\* transaction code that was run.
C19_TransactionEvidence ==
    (RunReq /\ pc = "done" /\ response.type = "ExecutionOutput") =>
        \A k \in Positions :
            IdAt(k) = "sap-run-transaction" =>
                \E item \in Range(response.evidence[k]) :
                    request.instructions[k].parameters["tcode"].s
                        \in Range(item.content)

\* C20: a screenshot whose file cannot be deleted still succeeds with its
\* evidence item attached, while every call that did something and pushed
\* nothing has failed the batch with an Error.
C20_BestEffortCleanup ==
    (program = "lib" /\ RunReq) =>
        \A k \in Positions :
            /\ <<k, "remove_file failed">> \in TraceSet =>
                  /\ Pushed(k)
                  /\ failedAt # k
                  /\ failedAt = 0 =>
                        evidence[k] =
                           <<[label |-> request.instructions[k].parameters["label"].s,
                              content |-> <<"ImageAsPngBase64",
                                            "base64(evidence.png)">>]>>
            /\ ((\E e \in OpEvents \cup Found : <<k, e>> \in TraceSet)
                  /\ ~Pushed(k)) =>
                  /\ failedAt = k
                  /\ response.type = "Error"

C20_Witness ==
    /\ program = "lib" /\ RunReq /\ pc = "done"
    /\ response.type = "ExecutionOutput"
    /\ \E k \in Positions : <<k, "remove_file failed">> \in TraceSet
    /\ \E k \in Positions : response.evidence[k] # <<>>

Repl == program = "main"

\* A line was read and the process ended before a response was printed.
Unanswered == pc \in {"exited", "aborted"} /\ request.kind # "none"

C22_RunsToResponse ==
    (RunReq /\ pc = "running")
        ~> (pc = "done" /\ response.type \in {"ExecutionOutput", "Error"})

\* C23: no two descriptors of the executable and no two instructions
\* registered in the library share an id, so the id of a call selects at
\* most one of them.
C23_UniqueIds ==
    /\ \A a, b \in DOMAIN Catalog : Catalog[a].id = Catalog[b].id => a = b
    /\ \A a, b \in DOMAIN ENGINE_ids : ENGINE_ids[a] = ENGINE_ids[b] => a = b
    /\ (Main /\ InLoop) =>
          Cardinality({a \in DOMAIN Catalog :
                          Catalog[a].id = Current.instruction}) <= 1
    /\ LibInLoop =>
          Cardinality({a \in DOMAIN ENGINE_ids :
                          ENGINE_ids[a] = Current.instruction}) = 1

C23_Witness ==
    /\ Main /\ RunReq
    /\ pc = "running"
    /\ idx = 1
    /\ Len(request.instructions) = 2
    /\ IdAt(1) = "sap-send-key"
    /\ IdAt(2) = "sap-press-button"

\* C24: the State holds a COM instance exactly when it holds a session.
C24_NeverHalfConnected ==
    (state.com_instance = Some) <=> (state.session = Some)

C24_Witness ==
    /\ last.kind = "ResetState"
    /\ last.before.session = Some
    /\ RunReq
    /\ failedAt = 1
    /\ IdAt(1) = "sap-connect"
    /\ <<1, "connect">> \in TraceSet
    /\ state = DefaultState

\* C25: the State changes only in two ways: a sap-connect call that succeeds
\* takes it from disconnected to connected, and a ResetState request takes
\* it to the default; every other call and request leaves it as it is.
C25_OnlyConnectAndReset ==
    [][state' # state =>
          \/ /\ request'.kind = "ResetState"
             /\ state' = DefaultState
          \/ /\ RunReq /\ pc = "running"
             /\ Current.instruction = "sap-connect"
             /\ idx' = idx + 1
             /\ ~Connected(state)
             /\ Connected(state')]_vars

C25_Witness ==
    /\ RunReq /\ pc = "done"
    /\ response.type = "ExecutionOutput"
    /\ Len(request.instructions) = 2
    /\ IdAt(1) = "sap-run-transaction"
    /\ IdAt(2) = "sap-send-key"
    /\ last.only = ConnectBatch
    /\ before = state
    /\ Connected(state)

\* The driver operation of each instruction that works on the session.
OpOf(id) ==
    CASE id = "sap-run-transaction" -> "start_transaction"
      [] id = "sap-set-text-value"  -> "set_text"
      [] id = "sap-send-key"        -> "send_v_key"
      [] id = "sap-press-button"    -> "press"

\* C26: in the executable a call of an instruction that works on the session
\* has its output entry pushed only if its driver operation was invoked.
C26_SuccessMeansOperated ==
    Batch =>
        \A k \in Positions :
            (IdAt(k) \in NeedsSession /\ Pushed(k)) =>
                <<k, OpOf(IdAt(k))>> \in TraceSet

\* C27: a call that passed validation ends in a pushed entry or in an Error
\* response: reading its parameters never aborts the processing.
C27_ValidatedNeverAborts ==
    Batch =>
        \A k \in Positions :
            (/\ <<k, "validate">> \in TraceSet
             /\ Validate(Descriptor(IdAt(k)), request.instructions[k]).ok) =>
                \/ Pushed(k)
                \/ failedAt = k /\ pc = "done" /\ response.type = "Error"

\* C28: once standard input is at end of file the REPL loop returns.
C28_EndOfFileEnds == (Repl /\ stdin = "closed") ~> (pc = "exited")

\* C29: the key code handed to send_v_key is the integer of the `key`
\* parameter of a sap-send-key call of the batch.
C29_KeyUnchanged ==
    vkey # <<>> =>
        \E k \in Positions :
            /\ <<k, "send_v_key">> \in TraceSet
            /\ vkey[1] = value_i32(request.instructions[k].parameters["key"])

Listed == Range(InstructionsResponse.output)

\* C30: the ids of the Instructions response are the ids the loop of
\* RunInstructions dispatches: a listed id is never answered with
\* InvalidInstruction, and an id that is not listed is never handled.
C30_CatalogMatchesDispatcher ==
    /\ Listed = Dispatched
    /\ Batch =>
          \A k \in Positions :
              /\ (/\ failedAt = k
                  /\ response.type = "Error"
                  /\ response.kind = "InvalidInstruction") =>
                    IdAt(k) \notin Listed
              /\ IdAt(k) \notin Listed =>
                    /\ ~Pushed(k)
                    /\ <<k, "validate">> \notin TraceSet
                    /\ (k <= idx + 1 /\ pc = "done") =>
                          /\ failedAt = k
                          /\ response.kind = "InvalidInstruction"

C30_Witness ==
    /\ Batch /\ pc = "done"
    /\ failedAt = 2
    /\ IdAt(1) = "sap-send-key"
    /\ Pushed(1)
    /\ IdAt(2) = "sap-unknown"
    /\ response.kind = "InvalidInstruction"

----------------------------------------------------------------------------
(* The handlers of the library, call by call *)

LibReq == program = "lib" /\ RunReq

EventAt(k, e) == <<k, e>> \in TraceSet

\* The places of the trace where the call at position k performed e.
Places(k, e) == {n \in DOMAIN trace : trace[n] = <<k, e>>}

\* The handler returned None for the call at position k.
Succeeded(k) == k <= Len(output)

\* C31: when a handler returns successfully the output map of the call
\* holds exactly the keys its descriptor declares, and a handler that
\* returns an Error has inserted no output and pushed no evidence.
C31_DeclaredOutputs ==
    LibReq =>
        \A k \in Positions :
            /\ Succeeded(k) =>
                  /\ DOMAIN output[k] = ENGINE_outputs(IdAt(k))
                  /\ EventAt(k, "output.insert") <=>
                        ENGINE_outputs(IdAt(k)) # {}
            /\ (pc = "done" /\ response.type = "ExecutionOutput") =>
                  DOMAIN response.output[k] = ENGINE_outputs(IdAt(k))
            /\ failedAt = k =>
                  /\ ~EventAt(k, "output.insert")
                  /\ ~EventAt(k, "evidence.push")

C31_Witness ==
    /\ LibReq /\ pc = "done" /\ response.type = "ExecutionOutput"
    /\ Len(request.instructions) = 2
    /\ IdAt(2) = "sap-grid-get-row-count"
    /\ DOMAIN response.output[2] = {"value"}
    /\ response.output[2]["value"].kind = "Integer"

\* C32: on a connected session sap-does-element-exist never fails: exists
\* is true exactly when find_by_id resolves the target, and the only Error
\* it returns is that of a session that is not connected.
C32_ExistsNeverFails ==
    LibReq =>
        \A k \in Positions :
            IdAt(k) = "sap-does-element-exist" =>
                /\ failedAt = k =>
                      /\ state.session = None
                      /\ response.reason = <<"GuiSession not initialised">>
                      /\ ~EventAt(k, "find_by_id")
                /\ Succeeded(k) =>
                      /\ EventAt(k, "find_by_id")
                      /\ output[k]["exists"] =
                            BooleanValue(~EventAt(k, NotFound))

C32_Witness ==
    /\ LibReq /\ pc = "done" /\ response.type = "ExecutionOutput"
    /\ Len(request.instructions) = 2
    /\ IdAt(2) = "sap-does-element-exist"
    /\ EventAt(2, NotFound)
    /\ response.output[2]["exists"] = BooleanValue(FALSE)

\* C33: sap-screenshot pushes an evidence item if and only if it returns
\* successfully: then exactly one item, carrying the label of the call and
\* the base64 image; on every failure path nothing is pushed.
C33_EvidenceIffSuccess ==
    LibReq =>
        \A k \in Positions :
            IdAt(k) = "sap-screenshot" =>
                /\ EventAt(k, "evidence.push") <=> Succeeded(k)
                /\ Cardinality(Places(k, "evidence.push")) <= 1
                /\ Succeeded(k) =>
                      evidence[k] =
                         <<[label |->
                              value_string(
                                 request.instructions[k].parameters["label"]),
                            content |-> <<"ImageAsPngBase64",
                                          "base64(evidence.png)">>]>>
                /\ failedAt = k => evidence = <<>>

C33_Witness ==
    /\ LibReq /\ pc = "done" /\ response.type = "ExecutionOutput"
    /\ Len(request.instructions) = 2
    /\ IdAt(2) = "sap-screenshot"
    /\ EventAt(2, "GuiFrameWindow")
    /\ Len(response.evidence[2]) = 1
    /\ response.evidence[2][1].label = "shot"

Clicks(k) ==
    Places(k, "click_current_cell") \cup Places(k, "double_click_current_cell")

SelectFailed(k) ==
    /\ failedAt = k
    /\ response.reason = <<"Couldn't select cell in grid: ", "e">>

\* C34: sap-grid-click-cell selects the cell before it clicks: when the
\* selection fails nothing is clicked, and otherwise exactly one click is
\* made, a double click when `double` is true and a single click when it is
\* false.
C34_SelectThenClick ==
    LibReq =>
        \A k \in Positions :
            IdAt(k) = "sap-grid-click-cell" =>
                /\ \A c \in Clicks(k) :
                       \E n \in Places(k, "set_current_cell") : n < c
                /\ SelectFailed(k) => Clicks(k) = {}
                /\ (EventAt(k, "set_current_cell") /\ ~SelectFailed(k)) =>
                      /\ Cardinality(Clicks(k)) = 1
                      /\ EventAt(k, "double_click_current_cell") <=>
                            value_bool(
                               request.instructions[k].parameters["double"])

C34_Witness ==
    /\ LibReq /\ pc = "done" /\ response.type = "ExecutionOutput"
    /\ Len(request.instructions) = 2
    /\ IdAt(2) = "sap-grid-click-cell"
    /\ value_bool(request.instructions[2].parameters["double"])
    /\ EventAt(2, "double_click_current_cell")
    /\ ~EventAt(2, "click_current_cell")

\* find_by_id resolved the target of the call at position k to kind K.
Resolved(k, K) ==
    \E n \in Places(k, "find_by_id") :
        n < Len(trace) /\ trace[n + 1] = <<k, K>>

\* The kind check of the call at position k let the component through: the
\* handler went on after the kind was known.
Accepted(k) ==
    \E n \in Places(k, "find_by_id") :
        n + 2 <= Len(trace) /\ trace[n + 2][1] = k

\* C35: whether an instruction accepts a resolved component is decided by
\* the kind of the component alone: in every call, whatever the requests
\* before it, the state of the session and its parameters, a component is
\* accepted exactly when its kind is one the instruction operates on.
C35_KindDecides ==
    LibReq =>
        \A k \in Positions :
            \A K \in SAPComponent :
                Resolved(k, K) => (Accepted(k) <=> K \in Accepts(IdAt(k)))

C35_Witness ==
    /\ LibReq /\ pc = "done"
    /\ last.kind = "ResetState"
    /\ failedAt = 2
    /\ IdAt(2) = "sap-get-text-value"
    /\ request.instructions[2].parameters["target"] = StringValue(Label)
    /\ Resolved(2, "GuiLabel")
    /\ ~Accepted(2)

Converted == {K \in SAPComponent : cast_as_vcomponent(K) # None}

\* C36: sap-visualise-element and sap-component-type accept the same
\* kinds, and these are the kinds cast_as_vcomponent converts: the target
\* kind and every intermediate kind the macro lists.
C36_SameKinds ==
    /\ ENGINE_sap_visualise_element_arms = ENGINE_sap_component_type_arms
    /\ ENGINE_sap_component_type_arms = Converted
    /\ Converted = {"GuiVComponent"} \cup Range(cast_as_vcomponent_via)
    /\ LibReq =>
          \A k \in Positions :
              IdAt(k) \in {"sap-component-type", "sap-visualise-element"} =>
                  \A K \in SAPComponent :
                      Resolved(k, K) => (Accepted(k) <=> K \in Converted)

C36_Witness ==
    /\ LibReq /\ pc = "done" /\ response.type = "ExecutionOutput"
    /\ Len(request.instructions) = 2
    /\ IdAt(2) = "sap-visualise-element"
    /\ Resolved(2, "GuiLabel")
    /\ EventAt(2, "visualize")

====
